---------------------------- MODULE Spec2Model ----------------------------
(***************************************************************************)
(* Model of tools/cfg_visualizer.py: extract_basic_blocks partitions the   *)
(* decoded instruction sequence of a function into basic blocks and        *)
(* connects them with successor edges.                                     *)
(*                                                                         *)
(* An instruction is a record [offset, opname, argval] as produced by      *)
(* dis.get_instructions: offsets are unique and strictly increasing, and   *)
(* for the opcodes of JUMP_OPCODES argval is the resolved target offset.   *)
(* A BasicBlock is a record with the five fields of the class; the dict    *)
(* `blocks` is a function from keys to BasicBlock records together with    *)
(* the insertion order of its keys (blocks_order).                         *)
(*                                                                         *)
(* Model of tools/bytecode_tracer.py and tools/stack_animator.py: the      *)
(* StackSimulator and the StackAnimator simulate the instructions on a     *)
(* stack of Python values and a dict of locals; trace_execution runs the   *)
(* StackSimulator over the whole sequence and returns its ExecutionSteps.  *)
(*                                                                         *)
(* Five specifications share the variables: Spec (extract_basic_blocks on  *)
(* every short instruction sequence), ScenarioSpec (extract_basic_blocks   *)
(* on the functions of test_cfg_visualizer.py), SimSpec and StepSpec       *)
(* (either simulator, one instruction at a time, on two instruction        *)
(* samples) and TraceSpec (extract_basic_blocks and trace_execution on one *)
(* sequence, twice).                                                       *)
(***************************************************************************)
EXTENDS Integers, Sequences, FiniteSets, TLC

\* ------------------------------------------------------------------------
\* Bounds of the model
\* ------------------------------------------------------------------------

\* Longest instruction sequence drawn as input.
MaxLen == 3

\* ------------------------------------------------------------------------
\* Program constants
\* ------------------------------------------------------------------------

\* Python's None, as the argval of an instruction that has no integer operand.
None == -1

\* Width of one instruction in bytes: offsets of consecutive instructions.
InstrSize == 2

JUMP_OPCODES ==
    { "JUMP_FORWARD", "JUMP_BACKWARD", "JUMP_ABSOLUTE",
      "POP_JUMP_IF_FALSE", "POP_JUMP_IF_TRUE",
      "JUMP_IF_FALSE_OR_POP", "JUMP_IF_TRUE_OR_POP",
      "FOR_ITER", "JUMP_IF_NOT_EXC_MATCH",
      "POP_JUMP_FORWARD_IF_FALSE", "POP_JUMP_FORWARD_IF_TRUE",
      "POP_JUMP_BACKWARD_IF_FALSE", "POP_JUMP_BACKWARD_IF_TRUE",
      "POP_JUMP_FORWARD_IF_NONE", "POP_JUMP_BACKWARD_IF_NONE",
      "POP_JUMP_FORWARD_IF_NOT_NONE", "POP_JUMP_BACKWARD_IF_NOT_NONE" }

BLOCK_END_OPCODES ==
    JUMP_OPCODES \cup { "RETURN_VALUE", "RAISE_VARARGS", "RERAISE" }

\* The opcodes after which the edge loop adds no fall-through edge
\* (the set literal of the elif).
NO_FALLTHROUGH_OPCODES == { "RETURN_VALUE", "RAISE_VARARGS", "RERAISE" }

\* `"IF" in opname`: the opcode names that contain the substring IF.
ContainsIF(opname) ==
    opname \in
      { "POP_JUMP_IF_FALSE", "POP_JUMP_IF_TRUE",
        "JUMP_IF_FALSE_OR_POP", "JUMP_IF_TRUE_OR_POP",
        "JUMP_IF_NOT_EXC_MATCH",
        "POP_JUMP_FORWARD_IF_FALSE", "POP_JUMP_FORWARD_IF_TRUE",
        "POP_JUMP_BACKWARD_IF_FALSE", "POP_JUMP_BACKWARD_IF_TRUE",
        "POP_JUMP_FORWARD_IF_NONE", "POP_JUMP_BACKWARD_IF_NONE",
        "POP_JUMP_FORWARD_IF_NOT_NONE", "POP_JUMP_BACKWARD_IF_NOT_NONE",
        "POP_JUMP_IF_NONE", "POP_JUMP_IF_NOT_NONE" }

\* `isinstance(argval, int)` for the argval of a jump instruction.
IsInt(argval) == argval # None

\* ------------------------------------------------------------------------
\* Generic helpers
\* ------------------------------------------------------------------------

Range(s) == { s[k] : k \in DOMAIN s }

Last(s) == s[Len(s)]

\* sorted(S) for a finite set of integers.
RECURSIVE Sorted(_)
Sorted(S) ==
    IF S = {} THEN << >>
    ELSE LET m == CHOOSE x \in S : \A y \in S : x <= y
         IN  << m >> \o Sorted(S \ {m})

\* ------------------------------------------------------------------------
\* class BasicBlock
\* ------------------------------------------------------------------------

\* An "empty" mapping that already holds a block at offset 0
EmptyDict_Entry ==
    [ x \in { 0 } |->
        [ start_offset |-> 0, end_offset |-> 0, instructions |-> << >>,
          successors |-> << >>, is_conditional |-> [ y \in {} |-> FALSE ] ] ]

EmptyDict == [ x \in {} |-> FALSE ]

BasicBlock(start_offset) ==
    [ start_offset   |-> start_offset,
      end_offset     |-> start_offset,
      instructions   |-> << >>,
      successors     |-> << >>,
      is_conditional |-> EmptyDict ]

add_instruction_NoEnd(block, instr) ==
    [ block EXCEPT !.instructions = Append(@, instr) ]

add_instruction_Prepend(block, instr) ==
    [ block EXCEPT !.instructions = << instr >> \o @,
                   !.end_offset = instr.offset ]

add_instruction(block, instr) ==
    [ block EXCEPT !.instructions = Append(@, instr),
                   !.end_offset = instr.offset ]

add_successor_DefaultKind(block, offset, is_conditional) ==
    IF offset \in Range(block.successors)
    THEN block
    ELSE [ block EXCEPT
             !.successors = Append(@, offset),
             !.is_conditional =
                 [ x \in DOMAIN @ \cup {offset} |->
                     IF x = offset THEN FALSE ELSE @[x] ] ]

add_successor(block, offset, is_conditional) ==
    IF offset \in Range(block.successors)
    THEN block
    ELSE [ block EXCEPT
             !.successors = Append(@, offset),
             !.is_conditional =
                 [ x \in DOMAIN @ \cup {offset} |->
                     IF x = offset THEN is_conditional ELSE @[x] ] ]

\* ------------------------------------------------------------------------
\* extract_basic_blocks: helpers
\* ------------------------------------------------------------------------

starts_of_TargetOnly(instrs, i) ==
    LET instr == instrs[i]
    IN  IF instr.opname \in JUMP_OPCODES /\ IsInt(instr.argval)
        THEN { instr.argval } ELSE {}

\* The block starts contributed by instruction i of the sequence: the target
\* of a jump, and the offset of the instruction after a jump.
starts_of(instrs, i) ==
    LET instr == instrs[i]
    IN  (IF instr.opname \in JUMP_OPCODES /\ instr.argval # None
            /\ IsInt(instr.argval)
         THEN { instr.argval } ELSE {})
        \cup
        (IF instr.opname \in JUMP_OPCODES /\ i + 1 <= Len(instrs)
         THEN { instrs[i + 1].offset } ELSE {})

\* blocks[key] = value on a dict: the value is replaced or added, and a new
\* key goes to the end of the insertion order.
dict_set(d, key, value) ==
    [ x \in DOMAIN d \cup {key} |-> IF x = key THEN value ELSE d[x] ]

dict_order(d, order, key) ==
    IF key \in DOMAIN d THEN order ELSE Append(order, key)

is_conditional_jump_Always(opname) == TRUE

\* The test of both the edge kind and the fall-through of a jump.
is_conditional_jump(opname) ==
    ContainsIF(opname) \/ opname = "FOR_ITER"

next_block_offset_First(d, x) ==
    LET keys == Sorted(DOMAIN d)
    IN  IF keys = << >> THEN None ELSE keys[1]

\* `for next_block_offset in sorted(blocks.keys()): if next_block_offset > x:
\* ...; break`: the first key greater than x in sorted order, None when the
\* loop ends without a hit.
next_block_offset(d, x) ==
    LET keys == Sorted(DOMAIN d)
        hits == { j \in 1..Len(keys) : keys[j] > x }
    IN  IF hits = {} THEN None
        ELSE keys[CHOOSE j \in hits : \A h \in hits : j <= h]

\* One iteration of the edge loop: the block stored under `offset` with its
\* successors added.
connect(d, offset) ==
    LET block      == d[offset]
        last_instr == Last(block.instructions)
        op         == last_instr.opname
    IN  IF block.instructions = << >> THEN block
        ELSE IF op \in JUMP_OPCODES
        THEN LET b1 == IF IsInt(last_instr.argval)
                       THEN add_successor(block, last_instr.argval,
                                          is_conditional_jump(op))
                       ELSE block
                 nxt == next_block_offset(d, last_instr.offset)
             IN  IF is_conditional_jump(op) /\ nxt # None
                 THEN add_successor(b1, nxt, TRUE)
                 ELSE b1
        ELSE IF op \notin NO_FALLTHROUGH_OPCODES
        THEN LET nxt == next_block_offset(d, offset)
             IN  IF nxt # None
                 THEN add_successor(block, nxt, FALSE)
                 ELSE block
        ELSE block

\* ------------------------------------------------------------------------
\* Python values of the simulators (tools/bytecode_tracer.py and
\* tools/stack_animator.py)
\*
\* A value on the simulated stack is a tagged record: an int, a float (held
\* exactly as the quotient n/d in lowest terms, d > 0), a bool, a str, None,
\* a list, a tuple or a dict (keys and values in insertion order).
\* ------------------------------------------------------------------------

PyInt(n) == [ t |-> "int", n |-> n ]

PyBool(b) == [ t |-> "bool", b |-> b ]

PyStr(s) == [ t |-> "str", s |-> s ]

PyNone == [ t |-> "none" ]

PyList(items) == [ t |-> "list", items |-> items ]

PyTuple(items) == [ t |-> "tuple", items |-> items ]

PyDict(keys, vals) == [ t |-> "dict", keys |-> keys, vals |-> vals ]

Abs(n) == IF n < 0 THEN -n ELSE n

RECURSIVE Gcd(_, _)
Gcd(a, b) == IF b = 0 THEN a ELSE Gcd(b, a % b)

\* The float n/d, d # 0, in lowest terms with a positive denominator.
PyFloat(n, d) ==
    LET g == Gcd(Abs(n), Abs(d))
        sgn == IF d < 0 THEN -1 ELSE 1
    IN  [ t |-> "float", n |-> sgn * (n \div g), d |-> Abs(d) \div g ]

\* `isinstance(v, (int, float))`: bool is a subclass of int.
IsNumber(v) == v.t \in { "int", "float", "bool" }

Num(v) == IF v.t = "bool" THEN (IF v.b THEN 1 ELSE 0) ELSE v.n

Den(v) == IF v.t = "float" THEN v.d ELSE 1

\* floor(a / b) for b # 0.
FloorDiv(a, b) == IF b < 0 THEN (-a) \div (-b) ELSE a \div b

RECURSIVE Pow(_, _)
Pow(b, e) == IF e = 0 THEN 1 ELSE b * Pow(b, e - 1)

\* The number n/d as the host gives it: a float when the operation yields
\* one, an int otherwise (then d = 1).
MkNum(isfloat, n, d) == IF isfloat THEN PyFloat(n, d) ELSE PyInt(n)

Raised == [ ok |-> FALSE, val |-> PyNone ]

Value(v) == [ ok |-> TRUE, val |-> v ]

\* The host's arithmetic `left <op> right` on two numbers, for the seven
\* operators the tracer folds: the result, or Raised when the host raises
\* (ZeroDivisionError).  An exponent is integral here (see NumbersInBounds).
Arith(op, left, right) ==
    LET ln == Num(left)
        ld == Den(left)
        rn == Num(right)
        rd == Den(right)
        fl == left.t = "float" \/ right.t = "float"
        q  == FloorDiv(ln * rd, ld * rn)
    IN  CASE op = "+" -> Value(MkNum(fl, ln * rd + rn * ld, ld * rd))
          [] op = "-" -> Value(MkNum(fl, ln * rd - rn * ld, ld * rd))
          [] op = "*" -> Value(MkNum(fl, ln * rn, ld * rd))
          [] op = "/" ->
                IF rn = 0 THEN Raised
                ELSE Value(PyFloat(ln * rd, ld * rn))
          [] op = "//" ->
                IF rn = 0 THEN Raised ELSE Value(MkNum(fl, q, 1))
          [] op = "%" ->
                IF rn = 0 THEN Raised
                ELSE Value(MkNum(fl, ln * rd - rn * q * ld, ld * rd))
          [] op = "**" ->
                IF rn >= 0
                THEN Value(MkNum(fl, Pow(ln, rn), Pow(ld, rn)))
                ELSE IF ln = 0 THEN Raised
                ELSE Value(PyFloat(Pow(ld, -rn), Pow(ln, -rn)))

\* The decimal digits of r/d after the point, r < d, for a quotient that
\* terminates.
RECURSIVE FracDigits(_, _)
FracDigits(r, d) ==
    IF r = 0 THEN ""
    ELSE ToString((r * 10) \div d) \o FracDigits((r * 10) % d, d)

\* str() of a float that is an exact short decimal: "2.0", "-0.5", "0.25".
FloatStr(n, d) ==
    LET a    == Abs(n)
        frac == FracDigits(a % d, d)
    IN  (IF n < 0 THEN "-" ELSE "") \o ToString(a \div d) \o "."
            \o (IF frac = "" THEN "0" ELSE frac)

RECURSIVE Str(_), Repr(_), JoinRepr(_), JoinItems(_, _)

\* ", ".join(repr(x) for x in items)
JoinRepr(items) ==
    IF items = << >> THEN ""
    ELSE IF Len(items) = 1 THEN Repr(items[1])
    ELSE Repr(items[1]) \o ", " \o JoinRepr(Tail(items))

\* ", ".join(repr(k) + ": " + repr(v)) over the items of a dict
JoinItems(keys, vals) ==
    IF keys = << >> THEN ""
    ELSE IF Len(keys) = 1 THEN Repr(keys[1]) \o ": " \o Repr(vals[1])
    ELSE Repr(keys[1]) \o ": " \o Repr(vals[1]) \o ", "
             \o JoinItems(Tail(keys), Tail(vals))

\* str(v), as an f-string renders v.
Str(v) ==
    CASE v.t = "int"   -> ToString(v.n)
      [] v.t = "bool"  -> IF v.b THEN "True" ELSE "False"
      [] v.t = "float" -> FloatStr(v.n, v.d)
      [] v.t = "str"   -> v.s
      [] v.t = "none"  -> "None"
      [] v.t = "list"  -> "[" \o JoinRepr(v.items) \o "]"
      [] v.t = "tuple" ->
            IF Len(v.items) = 1 THEN "(" \o Repr(v.items[1]) \o ",)"
            ELSE "(" \o JoinRepr(v.items) \o ")"
      [] v.t = "dict"  -> "{" \o JoinItems(v.keys, v.vals) \o "}"

\* repr(v): a str in quotes, everything else as str(v).  The quoted strs
\* of the model hold no quote themselves: a str with one is the text of a
\* composite of strs, and quoting it again takes more simulated
\* instructions than the model runs.
Repr(v) == IF v.t = "str" THEN "'" \o v.s \o "'" ELSE Str(v)

\* ------------------------------------------------------------------------
\* Text, list and dict operations of the host that the simulators use
\* ------------------------------------------------------------------------

\* An operand text (dis.Instruction.argrepr) is a sequence of one-character
\* strings, so that the code's parsing of it is computed and not assumed.
RECURSIVE Join(_)
Join(cs) == IF cs = << >> THEN "" ELSE Head(cs) \o Join(Tail(cs))

\* cs.split(sep): the pieces between separators, empty pieces included.
RECURSIVE Tokens(_, _)
Tokens(cs, sep) ==
    IF cs = << >> THEN << << >> >>
    ELSE LET rest == Tokens(Tail(cs), sep)
         IN  IF Head(cs) = sep THEN << << >> >> \o rest
             ELSE << << Head(cs) >> \o Head(rest) >> \o Tail(rest)

\* cs.split(): the pieces between runs of blanks.
split(cs) == SelectSeq(Tokens(cs, " "), LAMBDA tok : tok # << >>)

RECURSIVE lstrip(_)
lstrip(cs) ==
    IF cs # << >> /\ Head(cs) = " " THEN lstrip(Tail(cs)) ELSE cs

RECURSIVE rstrip(_)
rstrip(cs) ==
    IF cs # << >> /\ cs[Len(cs)] = " "
    THEN rstrip(SubSeq(cs, 1, Len(cs) - 1)) ELSE cs

strip(cs) == rstrip(lstrip(cs))

\* [v.strip() for v in argrepr.split(",")], as names
var_names_of(argrepr) ==
    LET toks == Tokens(argrepr, ",")
    IN  [ k \in 1..Len(toks) |-> Join(strip(toks[k])) ]

\* `sub in cs`
Contains(cs, sub) ==
    \E k \in 0..(Len(cs) - Len(sub)) : SubSeq(cs, k + 1, k + Len(sub)) = sub

Min(a, b) == IF a < b THEN a ELSE b

Reverse(s) == [ k \in 1..Len(s) |-> s[Len(s) + 1 - k] ]

\* The list after up to n calls of `if stack: stack.pop()`.
PopN(stack, n) == SubSeq(stack, 1, Len(stack) - Min(n, Len(stack)))

\* The values those pops removed, in the order they were pushed
\* (`items.insert(0, stack.pop())`).
PoppedN(stack, n) ==
    SubSeq(stack, Len(stack) - Min(n, Len(stack)) + 1, Len(stack))

\* ", ".join(str(a) for a in args)
RECURSIVE JoinStr(_)
JoinStr(args) ==
    IF args = << >> THEN ""
    ELSE IF Len(args) = 1 THEN Str(args[1])
    ELSE Str(args[1]) \o ", " \o JoinStr(Tail(args))

\* locals.get(name, default) and locals[name] = val on a dict of locals
locals_get(locals, name, default) ==
    IF name \in DOMAIN locals THEN locals[name] ELSE default

locals_set(locals, name, val) ==
    [ k \in DOMAIN locals \cup { name } |->
        IF k = name THEN val ELSE locals[k] ]

\* hash(v) succeeds: lists and dicts are unhashable, a tuple is hashable
\* when its items are.
RECURSIVE Hashable(_)
Hashable(v) ==
    CASE v.t \in { "list", "dict" } -> FALSE
      [] v.t = "tuple" -> \A k \in DOMAIN v.items : Hashable(v.items[k])
      [] OTHER -> TRUE

\* a == b: numbers by value (1 == 1.0 == True), lists and tuples item by
\* item, anything else by identity of type and content.
RECURSIVE PyEq(_, _)
PyEq(a, b) ==
    CASE IsNumber(a) /\ IsNumber(b) -> Num(a) * Den(b) = Num(b) * Den(a)
      [] a.t \in { "list", "tuple" } /\ b.t = a.t ->
            /\ Len(a.items) = Len(b.items)
            /\ \A k \in DOMAIN a.items : PyEq(a.items[k], b.items[k])
      [] OTHER -> a = b

\* d[key] = val for a hashable key: an equal key keeps its place and takes
\* the new value, a new key goes last.
dict_setitem(d, key, val) ==
    IF \E k \in DOMAIN d.keys : PyEq(d.keys[k], key)
    THEN PyDict(d.keys,
                [ k \in DOMAIN d.vals |->
                    IF PyEq(d.keys[k], key) THEN val ELSE d.vals[k] ])
    ELSE PyDict(Append(d.keys, key), Append(d.vals, val))

\* ------------------------------------------------------------------------
\* StackSimulator (tools/bytecode_tracer.py)
\*
\* A simulator object is the record `self` of its fields stack, locals,
\* consts and varnames.  Each branch of simulate_instruction is an operator
\* from the object and the instruction to an outcome: the stack and locals
\* the branch leaves, and whether an exception left the branch.
\* ------------------------------------------------------------------------

Done(stack, locals) == [ raised |-> FALSE, stack |-> stack, locals |-> locals ]

Exc(stack, locals) == [ raised |-> TRUE, stack |-> stack, locals |-> locals ]

Pop(stack) == SubSeq(stack, 1, Len(stack) - 1)

Top(stack) == stack[Len(stack)]

\* f"<{name}>"
Placeholder(name) == PyStr("<" \o name \o ">")

\* f"({left} {op} {right})"
BinaryText(left, op, right) ==
    PyStr("(" \o Str(left) \o " " \o op \o " " \o Str(right) \o ")")

\* `inst.arg if inst.arg else dflt`: None and 0 both give the default.
ArgOr(inst, dflt) == IF inst.arg = None \/ inst.arg = 0 THEN dflt ELSE inst.arg

\* -val on a number (a bool negates as the int it is).
Negate(val) ==
    IF val.t = "float" THEN PyFloat(-val.n, val.d) ELSE PyInt(-Num(val))

load_const(self, inst) ==
    IF inst.arg = None THEN Done(Append(self.stack, PyNone), self.locals)
    ELSE IF inst.arg < Len(self.consts)
    THEN Done(Append(self.stack, self.consts[inst.arg + 1]), self.locals)
    ELSE Exc(self.stack, self.locals)

\* The values of a list of names pushed last name first.
loaded_Reversed(locals, names) ==
    [ k \in 1..Len(names) |->
        locals_get(locals, names[Len(names) + 1 - k],
                   Placeholder(names[Len(names) + 1 - k])) ]

\* the values pushed for a list of names: binding or placeholder
loaded(locals, names) ==
    [ k \in 1..Len(names) |->
        locals_get(locals, names[k], Placeholder(names[k])) ]

load_fast(self, inst) ==
    IF inst.arg # None /\ inst.arg < Len(self.varnames)
    THEN Done(self.stack \o loaded(self.locals,
                                   << self.varnames[inst.arg + 1] >>),
              self.locals)
    ELSE Done(self.stack, self.locals)

load_fast_load_fast(self, inst) ==
    IF inst.argrepr # << >>
    THEN Done(self.stack \o loaded(self.locals, var_names_of(inst.argrepr)),
              self.locals)
    ELSE IF inst.arg # None
    THEN LET idxs  == << inst.arg % 16, (inst.arg \div 16) % 16 >>
             valid == SelectSeq(idxs, LAMBDA x : x < Len(self.varnames))
             names == [ k \in 1..Len(valid) |-> self.varnames[valid[k] + 1] ]
         IN  Done(self.stack \o loaded(self.locals, names), self.locals)
    ELSE Done(self.stack, self.locals)

load_global(self, inst) ==
    IF inst.argrepr # << >> /\ split(inst.argrepr) = << >>
    THEN Exc(self.stack, self.locals)
    ELSE LET name == IF inst.argrepr # << >>
                     THEN Join(split(inst.argrepr)[1]) ELSE "global"
             pushed == Append(self.stack, Placeholder(name))
         IN  IF Contains(inst.argrepr, << "+", " ", "N", "U", "L", "L" >>)
             THEN Done(Append(pushed, PyNone), self.locals)
             ELSE Done(pushed, self.locals)

store_fast(self, inst) ==
    IF inst.arg # None /\ inst.arg < Len(self.varnames) /\ self.stack # << >>
    THEN Done(Pop(self.stack),
              locals_set(self.locals, self.varnames[inst.arg + 1],
                         Top(self.stack)))
    ELSE Done(self.stack, self.locals)

\* for var_name in names: if stack: locals[var_name] = stack.pop()
RECURSIVE store_each(_, _, _)
store_each(stack, locals, names) ==
    IF names = << >> \/ stack = << >> THEN Done(stack, locals)
    ELSE store_each(Pop(stack), locals_set(locals, Head(names), Top(stack)),
                    Tail(names))

\* A fused store that binds the names in operand order, the first name to
\* the top of the stack.
store_fast_store_fast_InOrder(self, inst) ==
    IF inst.argrepr # << >>
    THEN store_each(self.stack, self.locals, var_names_of(inst.argrepr))
    ELSE Done(self.stack, self.locals)

store_fast_store_fast(self, inst) ==
    IF inst.argrepr # << >>
    THEN store_each(self.stack, self.locals,
                    Reverse(var_names_of(inst.argrepr)))
    ELSE Done(self.stack, self.locals)

\* binary_op with the operands taken in the other order
binary_op_Swapped(self, inst) ==
    IF Len(self.stack) >= 2
    THEN LET left  == self.stack[Len(self.stack)]
             right == self.stack[Len(self.stack) - 1]
             op_symbol == IF inst.argrepr # << >>
                          THEN Join(inst.argrepr) ELSE "op"
             folded == Arith(op_symbol, left, right)
             result ==
                 IF /\ IsNumber(left) /\ IsNumber(right)
                    /\ op_symbol \in { "+", "-", "*", "/", "//", "%", "**" }
                    /\ folded.ok
                 THEN folded.val
                 ELSE BinaryText(left, op_symbol, right)
         IN  Done(Append(PopN(self.stack, 2), result), self.locals)
    ELSE Done(self.stack, self.locals)

binary_op(self, inst) ==
    IF Len(self.stack) >= 2
    THEN LET right == self.stack[Len(self.stack)]
             left  == self.stack[Len(self.stack) - 1]
             op_symbol == IF inst.argrepr # << >>
                          THEN Join(inst.argrepr) ELSE "op"
             text == BinaryText(left, op_symbol, right)
             folded == Arith(op_symbol, left, right)
             result ==
                 IF /\ IsNumber(left) /\ IsNumber(right)
                    /\ op_symbol \in { "+", "-", "*", "/", "//", "%", "**" }
                    /\ folded.ok
                 THEN folded.val
                 ELSE text
         IN  Done(Append(PopN(self.stack, 2), result), self.locals)
    ELSE Done(self.stack, self.locals)

unary_negative(self, inst) ==
    IF self.stack # << >>
    THEN LET val == Top(self.stack)
         IN  Done(Append(Pop(self.stack),
                         IF IsNumber(val) THEN Negate(val)
                         ELSE PyStr("(-" \o Str(val) \o ")")),
                  self.locals)
    ELSE Done(self.stack, self.locals)

unary_not(self, inst) ==
    IF self.stack # << >>
    THEN Done(Append(Pop(self.stack),
                     PyStr("(not " \o Str(Top(self.stack)) \o ")")),
              self.locals)
    ELSE Done(self.stack, self.locals)

compare_op(self, inst) ==
    IF Len(self.stack) >= 2
    THEN LET right == self.stack[Len(self.stack)]
             left  == self.stack[Len(self.stack) - 1]
             op_str == IF inst.argrepr # << >>
                       THEN Join(inst.argrepr) ELSE "cmp"
         IN  Done(Append(PopN(self.stack, 2),
                         BinaryText(left, op_str, right)),
                  self.locals)
    ELSE Done(self.stack, self.locals)

\* f"{func}({args_str})" pushed in place of the callable, when there is one
call_result(stack, args) ==
    IF stack # << >>
    THEN Append(Pop(stack),
                PyStr(Str(Top(stack)) \o "(" \o JoinStr(args) \o ")"))
    ELSE stack

\* call that leaves a receiver marker where it is
call_KeepsMarker(self, inst) ==
    LET n_args == IF inst.arg # None THEN inst.arg ELSE 0
    IN  Done(call_result(PopN(self.stack, n_args),
                         PoppedN(self.stack, n_args)),
             self.locals)

\* call that renders the arguments in the order they were popped
call_Reversed(self, inst) ==
    LET n_args == IF inst.arg # None THEN inst.arg ELSE 0
        args   == Reverse(PoppedN(self.stack, n_args))
        rest   == PopN(self.stack, n_args)
        no_null == IF rest # << >> /\ Top(rest) = PyNone
                   THEN Pop(rest) ELSE rest
    IN  Done(call_result(no_null, args), self.locals)

call(self, inst) ==
    LET n_args == IF inst.arg # None THEN inst.arg ELSE 0
        args   == PoppedN(self.stack, n_args)
        rest   == PopN(self.stack, n_args)
        no_null == IF rest # << >> /\ Top(rest) = PyNone
                   THEN Pop(rest) ELSE rest
    IN  Done(call_result(no_null, args), self.locals)

call_function(self, inst) ==
    LET n_args == IF inst.arg # None THEN inst.arg ELSE 0
    IN  Done(call_result(PopN(self.stack, n_args),
                         PoppedN(self.stack, n_args)),
             self.locals)

pop_top(self, inst) ==
    IF self.stack # << >> THEN Done(Pop(self.stack), self.locals)
    ELSE Done(self.stack, self.locals)

return_value(self, inst) == pop_top(self, inst)

dup_top(self, inst) ==
    IF self.stack # << >>
    THEN Done(Append(self.stack, Top(self.stack)), self.locals)
    ELSE Done(self.stack, self.locals)

build_list(self, inst) ==
    LET n == ArgOr(inst, 0)
    IN  Done(Append(PopN(self.stack, n), PyList(PoppedN(self.stack, n))),
             self.locals)

build_tuple(self, inst) ==
    LET n == ArgOr(inst, 0)
    IN  Done(Append(PopN(self.stack, n), PyTuple(PoppedN(self.stack, n))),
             self.locals)

\* for _ in range(n): if len(stack) >= 2: val, key = pops; d[key] = val
\* `d[key] = val` raises TypeError on an unhashable key, after both pops.
RECURSIVE build_map_loop(_, _, _)
build_map_loop(stack, d, n) ==
    IF n = 0 \/ Len(stack) < 2
    THEN [ raised |-> FALSE, stack |-> stack, d |-> d ]
    ELSE LET val == stack[Len(stack)]
             key == stack[Len(stack) - 1]
         IN  IF Hashable(key)
             THEN build_map_loop(PopN(stack, 2), dict_setitem(d, key, val),
                                 n - 1)
             ELSE [ raised |-> TRUE, stack |-> PopN(stack, 2), d |-> d ]

build_map(self, inst) ==
    LET r == build_map_loop(self.stack, PyDict(<< >>, << >>), ArgOr(inst, 0))
    IN  IF r.raised THEN Exc(r.stack, self.locals)
        ELSE Done(Append(r.stack, r.d), self.locals)

\* The jump opcodes simulate_instruction names.
TRACER_JUMPS ==
    { "JUMP_FORWARD", "JUMP_BACKWARD", "JUMP_IF_TRUE_OR_POP",
      "JUMP_IF_FALSE_OR_POP", "POP_JUMP_IF_TRUE", "POP_JUMP_IF_FALSE",
      "POP_JUMP_IF_NONE", "POP_JUMP_IF_NOT_NONE" }

\* `"POP_JUMP" in opname`, over the names above
ContainsPOP_JUMP(opname) ==
    opname \in { "POP_JUMP_IF_TRUE", "POP_JUMP_IF_FALSE",
                 "POP_JUMP_IF_NONE", "POP_JUMP_IF_NOT_NONE" }

jump(self, inst) ==
    IF ContainsPOP_JUMP(inst.opname) /\ self.stack # << >>
    THEN Done(Pop(self.stack), self.locals)
    ELSE Done(self.stack, self.locals)

get_iter(self, inst) ==
    IF self.stack # << >>
    THEN Done(Append(Pop(self.stack),
                     PyStr("iter(" \o Str(Top(self.stack)) \o ")")),
              self.locals)
    ELSE Done(self.stack, self.locals)

for_iter(self, inst) ==
    Done(Append(self.stack, PyStr("<next_item>")), self.locals)

push_null(self, inst) == Done(Append(self.stack, PyNone), self.locals)

copy(self, inst) ==
    LET n == ArgOr(inst, 1)
    IN  IF Len(self.stack) >= n
        THEN Done(Append(self.stack, self.stack[Len(self.stack) - n + 1]),
                  self.locals)
        ELSE Done(self.stack, self.locals)

swap(self, inst) ==
    LET n    == ArgOr(inst, 2)
        last == Len(self.stack)
    IN  IF Len(self.stack) >= n
        THEN Done([ k \in 1..last |->
                      IF k = last THEN self.stack[last - n + 1]
                      ELSE IF k = last - n + 1 THEN self.stack[last]
                      ELSE self.stack[k] ],
                  self.locals)
        ELSE Done(self.stack, self.locals)

\* Opcodes numbered below dis.HAVE_ARGUMENT, among those the model feeds to
\* the fallback: they take no oparg.
NO_ARGUMENT_OPCODES == { "NOP", "BINARY_SUBSCR" }

\* dis.stack_effect(opcode, oparg) of the host for the opcodes outside the
\* table that the model feeds to the fallback: the net effect, or no answer
\* (ValueError). CPython up to 3.12 gives no answer when an oparg is passed
\* for an opcode that takes none, and no host answers for a number that is
\* no opcode.
stack_effect(opname, arg) ==
    CASE opname \in NO_ARGUMENT_OPCODES /\ arg # None ->
             [ ok |-> FALSE, effect |-> 0 ]
      [] opname = "NOP"             -> [ ok |-> TRUE, effect |-> 0 ]
      [] opname = "BINARY_SUBSCR"   -> [ ok |-> TRUE, effect |-> -1 ]
      [] opname = "LOAD_NAME"       -> [ ok |-> TRUE, effect |-> 1 ]
      [] opname = "STORE_NAME"      -> [ ok |-> TRUE, effect |-> -1 ]
      [] opname = "UNPACK_SEQUENCE" -> [ ok |-> TRUE, effect |-> arg - 1 ]
      [] opname = "BUILD_SET"       -> [ ok |-> TRUE, effect |-> 1 - arg ]
      [] opname \in { "POP_JUMP_FORWARD_IF_FALSE",
                      "POP_JUMP_FORWARD_IF_TRUE",
                      "POP_JUMP_BACKWARD_IF_FALSE",
                      "POP_JUMP_BACKWARD_IF_TRUE" } ->
             [ ok |-> TRUE, effect |-> -1 ]
      [] OTHER                      -> [ ok |-> FALSE, effect |-> 0 ]

\* A fallback that lets the ValueError of the lookup leave the method.
fallback_Raises(self, inst) ==
    LET r == stack_effect(inst.opname,
                          IF inst.arg = None THEN 0 ELSE inst.arg)
    IN  IF ~r.ok THEN Exc(self.stack, self.locals)
        ELSE IF r.effect < 0
        THEN Done(PopN(self.stack, -r.effect), self.locals)
        ELSE Done(self.stack \o
                    [ k \in 1..r.effect |->
                        PyStr("<" \o inst.opname \o "_result>") ],
                  self.locals)

\* The else branch: `inst.arg or 0` is passed as the oparg, so the lookup
\* is never asked without one.
fallback(self, inst) ==
    LET r == stack_effect(inst.opname,
                          IF inst.arg = None THEN 0 ELSE inst.arg)
    IN  IF ~r.ok THEN Done(self.stack, self.locals)
        ELSE IF r.effect < 0
        THEN Done(PopN(self.stack, -r.effect), self.locals)
        ELSE Done(self.stack \o
                    [ k \in 1..r.effect |->
                        PyStr("<" \o inst.opname \o "_result>") ],
                  self.locals)

ExecutionStep(offset, opcode, arg, stack_before, stack_after, locals_snapshot) ==
    [ offset |-> offset, opcode |-> opcode, arg |-> arg,
      stack_before |-> stack_before, stack_after |-> stack_after,
      locals_snapshot |-> locals_snapshot ]

\* What a call of a simulator method leaves when an exception leaves it:
\* no step is returned.
NoStep == [ offset |-> None ]

\* simulate_instruction: the outcome of the opcode's branch, and the
\* ExecutionStep returned when no exception left the branch.
simulate_instruction(self, inst) ==
    LET opname == inst.opname
        r == CASE opname = "RESUME" -> Done(self.stack, self.locals)
               [] opname = "LOAD_CONST" -> load_const(self, inst)
               [] opname = "LOAD_FAST" -> load_fast(self, inst)
               [] opname = "LOAD_FAST_LOAD_FAST" ->
                     load_fast_load_fast(self, inst)
               [] opname = "LOAD_GLOBAL" -> load_global(self, inst)
               [] opname = "STORE_FAST" -> store_fast(self, inst)
               [] opname = "STORE_FAST_STORE_FAST" ->
                     store_fast_store_fast(self, inst)
               [] opname = "BINARY_OP" -> binary_op(self, inst)
               [] opname = "UNARY_NEGATIVE" -> unary_negative(self, inst)
               [] opname = "UNARY_NOT" -> unary_not(self, inst)
               [] opname \in { "COMPARE_OP", "CONTAINS_OP", "IS_OP" } ->
                     compare_op(self, inst)
               [] opname = "CALL" -> call(self, inst)
               [] opname = "CALL_FUNCTION" -> call_function(self, inst)
               [] opname = "RETURN_VALUE" -> return_value(self, inst)
               [] opname = "RETURN_CONST" -> Done(self.stack, self.locals)
               [] opname = "POP_TOP" -> pop_top(self, inst)
               [] opname = "DUP_TOP" -> dup_top(self, inst)
               [] opname = "BUILD_LIST" -> build_list(self, inst)
               [] opname = "BUILD_TUPLE" -> build_tuple(self, inst)
               [] opname = "BUILD_MAP" -> build_map(self, inst)
               [] opname \in TRACER_JUMPS -> jump(self, inst)
               [] opname = "GET_ITER" -> get_iter(self, inst)
               [] opname = "FOR_ITER" -> for_iter(self, inst)
               [] opname = "PUSH_NULL" -> push_null(self, inst)
               [] opname = "COPY" -> copy(self, inst)
               [] opname = "SWAP" -> swap(self, inst)
               [] OTHER -> fallback(self, inst)
    IN  [ raised |-> r.raised,
          stack  |-> r.stack,
          locals |-> r.locals,
          step   |-> IF r.raised THEN NoStep
                     ELSE ExecutionStep(inst.offset, opname,
                                        Join(inst.argrepr), self.stack,
                                        r.stack, r.locals) ]

\* ------------------------------------------------------------------------
\* StackAnimator (tools/stack_animator.py)
\*
\* The animator applies the host's operators to whatever values are on its
\* stack, so the host's operators are defined on every value of the model.
\* ------------------------------------------------------------------------

\* bool(v)
Truthy(v) ==
    CASE IsNumber(v)                 -> Num(v) # 0
      [] v.t = "str"                 -> v.s # ""
      [] v.t = "none"                -> FALSE
      [] v.t \in { "list", "tuple" } -> v.items # << >>
      [] v.t = "dict"                -> v.keys # << >>

\* isinstance(v, int)
IsInteger(v) == v.t \in { "int", "bool" }

IsSequence(v) == v.t \in { "str", "list", "tuple" }

RECURSIVE RepeatStr(_, _)
RepeatStr(str, n) == IF n <= 0 THEN "" ELSE str \o RepeatStr(str, n - 1)

RECURSIVE RepeatSeq(_, _)
RepeatSeq(items, n) ==
    IF n <= 0 THEN << >> ELSE items \o RepeatSeq(items, n - 1)

\* seq * n
Repeat(v, n) ==
    IF v.t = "str" THEN PyStr(RepeatStr(v.s, n))
    ELSE [ t |-> v.t, items |-> RepeatSeq(v.items, n) ]

\* left + right, left - right, left * right, left / right of the host:
\* the value, or Raised (TypeError, ZeroDivisionError).
PyAdd(left, right) ==
    CASE IsNumber(left) /\ IsNumber(right) -> Arith("+", left, right)
      [] left.t = "str" /\ right.t = "str" ->
            Value(PyStr(left.s \o right.s))
      [] left.t \in { "list", "tuple" } /\ right.t = left.t ->
            Value([ t |-> left.t, items |-> left.items \o right.items ])
      [] OTHER -> Raised

PySub(left, right) ==
    IF IsNumber(left) /\ IsNumber(right) THEN Arith("-", left, right)
    ELSE Raised

PyMul(left, right) ==
    CASE IsNumber(left) /\ IsNumber(right) -> Arith("*", left, right)
      [] IsSequence(left) /\ IsInteger(right) ->
            Value(Repeat(left, Num(right)))
      [] IsInteger(left) /\ IsSequence(right) ->
            Value(Repeat(right, Num(left)))
      [] OTHER -> Raised

PyDiv(left, right) ==
    IF IsNumber(left) /\ IsNumber(right) THEN Arith("/", left, right)
    ELSE Raised

\* left < right and the other orderings on two numbers; other pairs of
\* operands the model feeds to an ordering raise TypeError.
PyOrder(op, left, right) ==
    IF IsNumber(left) /\ IsNumber(right)
    THEN LET a == Num(left) * Den(right)
             b == Num(right) * Den(left)
         IN  Value(PyBool(CASE op = "<"  -> a < b
                            [] op = "<=" -> a <= b
                            [] op = ">"  -> a > b
                            [] op = ">=" -> a >= b))
    ELSE Raised

\* -value
PyNeg(value) == IF IsNumber(value) THEN Value(Negate(value)) ELSE Raised

\* `arg == sym or arg == code`
ArgIs(arg, sym, code) == arg = PyStr(sym) \/ PyEq(arg, PyInt(code))

\* self.locals.get(arg, f"<{arg}>")
animator_get(locals, arg) ==
    IF arg.t = "str" /\ arg.s \in DOMAIN locals THEN locals[arg.s]
    ELSE PyStr("<" \o Str(arg) \o ">")

\* An outcome of _simulate_instruction: what Done/Exc give, and the value
\* returned (should the animation continue).
Continue(r) ==
    [ raised |-> r.raised, stack |-> r.stack, locals |-> r.locals,
      continue |-> TRUE ]

Stop(r) ==
    [ raised |-> r.raised, stack |-> r.stack, locals |-> r.locals,
      continue |-> FALSE ]

animator_binary_op(self, arg) ==
    IF Len(self.stack) >= 2
    THEN LET right == self.stack[Len(self.stack)]
             left  == self.stack[Len(self.stack) - 1]
             r == CASE ArgIs(arg, "+", 0)  -> PyAdd(left, right)
                    [] ArgIs(arg, "-", 1)  -> PySub(left, right)
                    [] ArgIs(arg, "*", 5)  -> PyMul(left, right)
                    [] ArgIs(arg, "/", 11) -> PyDiv(left, right)
                    [] OTHER ->
                          Value(PyStr("<" \o Str(left) \o " " \o Str(arg)
                                          \o " " \o Str(right) \o ">"))
             result == IF r.ok THEN r.val
                       ELSE PyStr("<" \o Str(left) \o " op " \o Str(right)
                                      \o ">")
         IN  Done(Append(PopN(self.stack, 2), result), self.locals)
    ELSE Done(self.stack, self.locals)

animator_compare_op(self, arg) ==
    IF Len(self.stack) >= 2
    THEN LET right == self.stack[Len(self.stack)]
             left  == self.stack[Len(self.stack) - 1]
             r == CASE arg \in { PyStr("<"), PyStr("<="), PyStr(">"),
                                 PyStr(">=") } ->
                          PyOrder(arg.s, left, right)
                    [] arg = PyStr("==") ->
                          Value(PyBool(PyEq(left, right)))
                    [] arg = PyStr("!=") ->
                          Value(PyBool(~PyEq(left, right)))
                    [] OTHER ->
                          Value(PyStr("<" \o Str(left) \o " " \o Str(arg)
                                          \o " " \o Str(right) \o ">"))
             result == IF r.ok THEN r.val
                       ELSE PyStr("<" \o Str(left) \o " cmp " \o Str(right)
                                      \o ">")
         IN  Done(Append(PopN(self.stack, 2), result), self.locals)
    ELSE Done(self.stack, self.locals)

animator_unary_not(self) ==
    IF self.stack # << >>
    THEN Done(Append(Pop(self.stack), PyBool(~Truthy(Top(self.stack)))),
              self.locals)
    ELSE Done(self.stack, self.locals)

\* `self.stack.append(-value)` stands outside any try: a TypeError of the
\* negation leaves the method, after the pop.
animator_unary_negative(self) ==
    IF self.stack # << >>
    THEN LET r == PyNeg(Top(self.stack))
         IN  IF r.ok THEN Done(Append(Pop(self.stack), r.val), self.locals)
             ELSE Exc(Pop(self.stack), self.locals)
    ELSE Done(self.stack, self.locals)

animator_call(self, arg) ==
    LET num_args  == IF IsInteger(arg) THEN Num(arg) ELSE 0
        args_list == PoppedN(self.stack, num_args)
        rest      == PopN(self.stack, num_args)
    IN  IF rest # << >>
        THEN Done(Append(Pop(rest),
                         PyStr("<call " \o Str(Top(rest)) \o "("
                                   \o JoinStr(args_list) \o ")>")),
                  self.locals)
        ELSE Done(rest, self.locals)

\* opname.startswith("JUMP") or opname.startswith("POP_JUMP"), over the
\* jump opcodes of both tables
StartsWithJump(opname) == opname \in JUMP_OPCODES \cup TRACER_JUMPS

\* StackAnimator._simulate_instruction
animator_simulate_instruction(self, instr) ==
    LET opname == instr.opname
        arg    == instr.argval
        same   == Done(self.stack, self.locals)
    IN  CASE opname = "LOAD_FAST" ->
               Continue(Done(Append(self.stack,
                                    animator_get(self.locals, arg)),
                             self.locals))
          [] opname = "LOAD_FAST_LOAD_FAST" ->
               IF arg.t = "tuple" /\ Len(arg.items) = 2
               THEN Continue(Done(self.stack \o
                                    << animator_get(self.locals, arg.items[1]),
                                       animator_get(self.locals, arg.items[2]) >>,
                                  self.locals))
               ELSE Continue(same)
          [] opname = "LOAD_CONST" ->
               Continue(Done(Append(self.stack, arg), self.locals))
          [] opname = "LOAD_GLOBAL" ->
               Continue(Done(Append(self.stack,
                                    PyStr("<global:" \o Str(arg) \o ">")),
                             self.locals))
          [] opname = "STORE_FAST" ->
               IF self.stack # << >>
               THEN Continue(Done(Pop(self.stack),
                                  locals_set(self.locals, arg.s,
                                             Top(self.stack))))
               ELSE Continue(same)
          [] opname = "BINARY_OP" -> Continue(animator_binary_op(self, arg))
          [] opname = "COMPARE_OP" -> Continue(animator_compare_op(self, arg))
          [] opname = "UNARY_NOT" -> Continue(animator_unary_not(self))
          [] opname = "UNARY_NEGATIVE" ->
               Continue(animator_unary_negative(self))
          [] opname = "CALL" -> Continue(animator_call(self, arg))
          [] opname = "RETURN_VALUE" -> Stop(same)
          [] opname = "POP_TOP" -> Continue(pop_top(self, instr))
          [] OTHER -> Continue(same)

\* ------------------------------------------------------------------------
\* State
\* ------------------------------------------------------------------------

VARIABLES
    pc,             \* position in extract_basic_blocks
    instructions,   \* list(dis.get_instructions(func))
    i,              \* index of the running for loop (1-based)
    block_starts,   \* Set[int]
    blocks,         \* Dict[int, BasicBlock]: key -> block
    blocks_order,   \* insertion order of the keys of blocks
    current_block,  \* << >> for None, << b >> for a BasicBlock b
    simulator,      \* the StackSimulator or StackAnimator object, if any
    called,         \* the last call of a simulator method: the instruction
                    \* and the stack and locals it started from
    step,           \* the ExecutionStep that call returned, if it did
    raised,         \* an exception has left a simulator method
    steps,          \* `steps` of trace_execution
    count,          \* number of instructions simulated so far
    previous        \* what an earlier analysis of the same input returned

cfgVars == << pc, instructions, i, block_starts, blocks, blocks_order,
              current_block >>

simVars == << simulator, called, step, raised, steps, count, previous >>

vars == << pc, instructions, i, block_starts, blocks, blocks_order,
           current_block, simulator, called, step, raised, steps, count,
           previous >>

\* ------------------------------------------------------------------------
\* Inputs: the instruction sequences of at most MaxLen instructions
\* ------------------------------------------------------------------------

\* Opcodes the inputs are drawn from: an unconditional jump, a conditional
\* jump, the iterator advance, the two returns, raise and re-raise, and an
\* ordinary instruction.
OpSample ==
    { "JUMP_FORWARD", "POP_JUMP_IF_FALSE", "FOR_ITER",
      "RETURN_VALUE", "RETURN_CONST", "RAISE_VARARGS", "RERAISE",
      "LOAD_FAST" }

\* Resolved jump targets: the offsets of the longest sequence and one offset
\* past its end, so a target may name no instruction of the sequence.
Targets == { InstrSize * k : k \in 0..MaxLen }

Operands ==
    { [ opname |-> o, argval |-> a ] :
        o \in OpSample \cap JUMP_OPCODES, a \in Targets }
    \cup
    { [ opname |-> o, argval |-> None ] : o \in OpSample \ JUMP_OPCODES }

\* The instruction list for a choice c of operands: instruction k sits at
\* offset InstrSize * (k - 1).
Decode(c) ==
    [ k \in DOMAIN c |->
        [ offset |-> InstrSize * (k - 1),
          opname |-> c[k].opname,
          argval |-> c[k].argval ] ]

\* No simulator exists and no analysis has returned yet.
NoSimulator == [ kind |-> "none" ]

NoCall == [ inst |-> None ]

NoRun == [ run |-> None ]

NoSimulation ==
    /\ simulator = NoSimulator
    /\ called = NoCall
    /\ step = NoStep
    /\ raised = FALSE
    /\ steps = << >>
    /\ count = 0
    /\ previous = NoRun

\* ------------------------------------------------------------------------
\* extract_basic_blocks
\* ------------------------------------------------------------------------

Init ==
    /\ \E n \in 0..MaxLen :
          \E c \in [ 1..n -> Operands ] : instructions = Decode(c)
    /\ pc = "start"
    /\ i = 1
    /\ block_starts = {}
    /\ blocks = EmptyDict
    /\ blocks_order = << >>
    /\ current_block = << >>
    /\ NoSimulation

\* `if not instructions: return {}`
ReturnEmpty ==
    /\ pc = "start"
    /\ instructions = << >>
    /\ blocks' = EmptyDict
    /\ blocks_order' = << >>
    /\ pc' = "done"
    /\ UNCHANGED << instructions, i, block_starts, current_block >>
    /\ UNCHANGED simVars

\* `block_starts = {instructions[0].offset}`
FirstStart ==
    /\ pc = "start"
    /\ instructions # << >>
    /\ block_starts' = { instructions[1].offset }
    /\ i' = 1
    /\ pc' = "mark"
    /\ UNCHANGED << instructions, blocks, blocks_order, current_block >>
    /\ UNCHANGED simVars

\* One iteration of `for i, instr in enumerate(instructions)`.
MarkStep ==
    /\ pc = "mark"
    /\ i <= Len(instructions)
    /\ block_starts' = block_starts \cup starts_of(instructions, i)
    /\ i' = i + 1
    /\ UNCHANGED << pc, instructions, blocks, blocks_order, current_block >>
    /\ UNCHANGED simVars

\* End of the marking loop: `blocks = {}`, `current_block = None`.
MarkDone ==
    /\ pc = "mark"
    /\ i > Len(instructions)
    /\ blocks' = EmptyDict
    /\ blocks_order' = << >>
    /\ current_block' = << >>
    /\ i' = 1
    /\ pc' = "group"
    /\ UNCHANGED << instructions, block_starts >>
    /\ UNCHANGED simVars

\* One iteration of `for instr in instructions` of the block creation.
GroupStep ==
    /\ pc = "group"
    /\ i <= Len(instructions)
    /\ LET instr  == instructions[i]
           isnew  == instr.offset \in block_starts
           close  == isnew /\ current_block # << >>
           cb     == IF isnew THEN << BasicBlock(instr.offset) >>
                     ELSE current_block
       IN  /\ blocks' =
                 IF close
                 THEN dict_set(blocks, current_block[1].start_offset,
                               current_block[1])
                 ELSE blocks
           /\ blocks_order' =
                 IF close
                 THEN dict_order(blocks, blocks_order,
                                 current_block[1].start_offset)
                 ELSE blocks_order
           /\ current_block' =
                 IF cb # << >> THEN << add_instruction(cb[1], instr) >>
                 ELSE cb
    /\ i' = i + 1
    /\ UNCHANGED << pc, instructions, block_starts >>
    /\ UNCHANGED simVars

\* End of the creation loop: the last block is stored.
GroupDone ==
    /\ pc = "group"
    /\ i > Len(instructions)
    /\ blocks' =
          IF current_block # << >>
          THEN dict_set(blocks, current_block[1].start_offset,
                        current_block[1])
          ELSE blocks
    /\ blocks_order' =
          IF current_block # << >>
          THEN dict_order(blocks, blocks_order,
                          current_block[1].start_offset)
          ELSE blocks_order
    /\ i' = 1
    /\ pc' = "edges"
    /\ UNCHANGED << instructions, block_starts, current_block >>
    /\ UNCHANGED simVars

\* One iteration of `for offset, block in blocks.items()`.
EdgeStep ==
    /\ pc = "edges"
    /\ i <= Len(blocks_order)
    /\ blocks' = dict_set(blocks, blocks_order[i],
                          connect(blocks, blocks_order[i]))
    /\ i' = i + 1
    /\ UNCHANGED << pc, instructions, block_starts, blocks_order,
                    current_block >>
    /\ UNCHANGED simVars

\* `return blocks`
Return ==
    /\ pc = "edges"
    /\ i > Len(blocks_order)
    /\ pc' = "done"
    /\ UNCHANGED << instructions, i, block_starts, blocks, blocks_order,
                    current_block >>
    /\ UNCHANGED simVars

Next ==
    \/ ReturnEmpty
    \/ FirstStart
    \/ MarkStep
    \/ MarkDone
    \/ GroupStep
    \/ GroupDone
    \/ EdgeStep
    \/ Return

Spec == Init /\ [][Next]_vars

\* ------------------------------------------------------------------------
\* Vocabulary of the properties
\* ------------------------------------------------------------------------

\* extract_basic_blocks has returned; `blocks` is the returned mapping.
Returned == pc = "done"

UNCONDITIONAL_JUMPS == { "JUMP_FORWARD", "JUMP_BACKWARD", "JUMP_ABSOLUTE" }

\* Conditional jumps and FOR_ITER: the jump table without the unconditional
\* jumps.
CONDITIONAL_FAMILY == JUMP_OPCODES \ UNCONDITIONAL_JUMPS

\* Returns (both forms), raise and re-raise.
TERMINAL_OPCODES ==
    { "RETURN_VALUE", "RETURN_CONST", "RAISE_VARARGS", "RERAISE" }

InstructionOffsets == { instructions[j].offset : j \in DOMAIN instructions }

\* Some jump of the input names a target that is no instruction's offset.
HasDanglingTarget ==
    \E j \in DOMAIN instructions :
        /\ instructions[j].opname \in JUMP_OPCODES
        /\ instructions[j].argval \notin InstructionOffsets

LaterKeys(k) == { x \in DOMAIN blocks : x > k }

\* The next block in offset order after the block stored under k.
NextKey(k) == CHOOSE x \in LaterKeys(k) : \A y \in LaterKeys(k) : x <= y

LastOp(k) == Last(blocks[k].instructions).opname

LastArg(k) == Last(blocks[k].instructions).argval

RECURSIVE ConcatBlocks(_)
ConcatBlocks(keys) ==
    IF keys = << >> THEN << >>
    ELSE blocks[Head(keys)].instructions \o ConcatBlocks(Tail(keys))

\* ------------------------------------------------------------------------
\* Properties
\* ------------------------------------------------------------------------

\* C1 (partition completeness): the instruction lists of the returned
\* blocks, concatenated in increasing start-offset order, are exactly the
\* input sequence: nothing dropped, nothing duplicated, order kept.
C1_PartitionCompleteness ==
    Returned => ConcatBlocks(Sorted(DOMAIN blocks)) = instructions

\* A run that returned several blocks, one of them with several instructions.
C1_Witness ==
    /\ Returned
    /\ Cardinality(DOMAIN blocks) >= 2
    /\ \E k \in DOMAIN blocks : Len(blocks[k].instructions) >= 2

\* C2 (graph closure): every offset in a returned block's successors is a
\* key of the returned mapping, for every input sequence.
C2_GraphClosure ==
    Returned =>
        \A k \in DOMAIN blocks :
            Range(blocks[k].successors) \subseteq DOMAIN blocks

\* C3 (DecodeInconsistency is fatal): with a jump whose target is no
\* instruction's offset, extract_basic_blocks does not return a mapping.
C3_DecodeInconsistencyFatal ==
    HasDanglingTarget => ~Returned

\* C4 (boundary correctness): the target of every instruction of the jump
\* table is the start offset of a returned block.
C4_BoundaryCorrectness ==
    Returned =>
        \A j \in DOMAIN instructions :
            instructions[j].opname \in JUMP_OPCODES
                => instructions[j].argval \in DOMAIN blocks

\* C5 (successor bound): a returned block has at most two successors, and
\* two only when its last instruction is a conditional jump or FOR_ITER.
C5_SuccessorBound ==
    Returned =>
        \A k \in DOMAIN blocks :
            /\ Len(blocks[k].successors) <= 2
            /\ Cardinality(Range(blocks[k].successors))
                   = Len(blocks[k].successors)
            /\ Len(blocks[k].successors) = 2
                   => LastOp(k) \in CONDITIONAL_FAMILY

\* A returned block with two successors.
C5_Witness ==
    /\ Returned
    /\ \E k \in DOMAIN blocks : Len(blocks[k].successors) = 2

\* C6 (block well-formedness): every returned block is stored under its
\* start_offset, is not empty, starts at its first instruction's offset and
\* ends at its last instruction's offset.
C6_BlockWellFormed ==
    Returned =>
        \A k \in DOMAIN blocks :
            LET b == blocks[k]
            IN  /\ b.start_offset = k
                /\ b.instructions # << >>
                /\ b.start_offset = b.instructions[1].offset
                /\ b.end_offset = Last(b.instructions).offset
                /\ b.end_offset >= b.start_offset

\* A returned block of several instructions, so that its end is past its
\* start.
C6_Witness ==
    /\ Returned
    /\ \E k \in DOMAIN blocks :
          /\ Len(blocks[k].instructions) >= 2
          /\ blocks[k].end_offset > blocks[k].start_offset

\* C7 (terminal blocks): a returned block whose last instruction is a
\* return (RETURN_VALUE or RETURN_CONST), RAISE_VARARGS or RERAISE has no
\* successors, whether or not a later block exists.
C7_TerminalNoSuccessors ==
    Returned =>
        \A k \in DOMAIN blocks :
            LastOp(k) \in TERMINAL_OPCODES => blocks[k].successors = << >>

\* C8 (conditional branch edges): a returned block whose last instruction
\* is a conditional jump or FOR_ITER has an edge to the resolved target and,
\* when a later block exists, to the next block in offset order, in that
\* order, both marked conditional, and no other edge.
C8_ConditionalEdges ==
    Returned =>
        \A k \in DOMAIN blocks :
            LastOp(k) \in CONDITIONAL_FAMILY =>
                LET b == blocks[k]
                    t == LastArg(k)
                IN  /\ b.successors =
                           IF LaterKeys(b.end_offset) = {}
                              \/ NextKey(b.end_offset) = t
                           THEN << t >>
                           ELSE << t, NextKey(b.end_offset) >>
                    /\ DOMAIN b.is_conditional = Range(b.successors)
                    /\ \A s \in Range(b.successors) : b.is_conditional[s]

\* A returned block ending in a conditional jump or FOR_ITER with both the
\* target edge and a distinct fall-through edge.
C8_Witness ==
    /\ Returned
    /\ \E k \in DOMAIN blocks :
          /\ LastOp(k) \in CONDITIONAL_FAMILY
          /\ LaterKeys(k) # {}
          /\ NextKey(k) # LastArg(k)
          /\ Len(blocks[k].successors) = 2

\* C9 (unconditional jump edges): a returned block whose last instruction
\* is an unconditional jump has exactly one successor, the resolved target,
\* marked unconditional; no fall-through edge is added.
C9_UnconditionalEdges ==
    Returned =>
        \A k \in DOMAIN blocks :
            LastOp(k) \in UNCONDITIONAL_JUMPS =>
                /\ blocks[k].successors = << LastArg(k) >>
                /\ DOMAIN blocks[k].is_conditional = { LastArg(k) }
                /\ ~blocks[k].is_conditional[LastArg(k)]

\* A returned block ending in an unconditional jump that is followed by a
\* block the jump does not target.
C9_Witness ==
    /\ Returned
    /\ \E k \in DOMAIN blocks :
          /\ LastOp(k) \in UNCONDITIONAL_JUMPS
          /\ LaterKeys(k) # {}
          /\ NextKey(k) # LastArg(k)
          /\ blocks[k].successors = << LastArg(k) >>

\* C10 (ordinary fall-through): a returned block whose last instruction is
\* neither a jump nor a terminal instruction, and that is not the last block
\* in offset order, has exactly one successor, the next block in offset
\* order, marked unconditional.
C10_FallThrough ==
    Returned =>
        \A k \in DOMAIN blocks :
            ( /\ LastOp(k) \notin JUMP_OPCODES
              /\ LastOp(k) \notin TERMINAL_OPCODES
              /\ LaterKeys(k) # {} ) =>
                /\ blocks[k].successors = << NextKey(k) >>
                /\ DOMAIN blocks[k].is_conditional = { NextKey(k) }
                /\ ~blocks[k].is_conditional[NextKey(k)]

\* A returned block ending in an ordinary instruction, neither the first
\* nor the last block, with its single fall-through edge.
C10_Witness ==
    /\ Returned
    /\ \E k \in DOMAIN blocks :
          /\ LastOp(k) \notin JUMP_OPCODES
          /\ LastOp(k) \notin TERMINAL_OPCODES
          /\ LaterKeys(k) # {}
          /\ \E x \in DOMAIN blocks : x < k
          /\ blocks[k].successors = << NextKey(k) >>

\* C11 (single entry per block): in a returned block only the first
\* instruction is the resolved target of a jump of the sequence, and a jump
\* (an opcode of the jump table) is the last instruction of its block.
C11_SingleEntry ==
    Returned =>
        \A k \in DOMAIN blocks :
            \A j \in 1..Len(blocks[k].instructions) :
                LET instr == blocks[k].instructions[j]
                IN  /\ j > 1 =>
                          \A m \in DOMAIN instructions :
                              instructions[m].opname \in JUMP_OPCODES
                                  => instructions[m].argval # instr.offset
                    /\ instr.opname \in JUMP_OPCODES
                          => j = Len(blocks[k].instructions)

\* A run that returned a block of several instructions closed by a jump,
\* whose target is the start of another block.
C11_Witness ==
    /\ Returned
    /\ \E k \in DOMAIN blocks :
          /\ Len(blocks[k].instructions) >= 2
          /\ LastOp(k) \in JUMP_OPCODES
          /\ LastArg(k) \in DOMAIN blocks \ {k}
          /\ LaterKeys(k) # {}

\* C13 as claimed (single-instruction input): a sequence of one instruction,
\* whatever its opcode, gives exactly one block, and it has no successors.
C13_SingleInstruction ==
    (Returned /\ Len(instructions) = 1) =>
        /\ Cardinality(DOMAIN blocks) = 1
        /\ \A k \in DOMAIN blocks : blocks[k].successors = << >>

\* C13 as amended: a sequence of one instruction gives exactly one block;
\* it has no successors unless the instruction is a jump of the jump table,
\* and then its only successor is the jump's resolved target.
C13_SingleInstructionAmended ==
    (Returned /\ Len(instructions) = 1) =>
        /\ DOMAIN blocks = { instructions[1].offset }
        /\ \A k \in DOMAIN blocks :
              blocks[k].successors =
                  IF instructions[1].opname \in JUMP_OPCODES
                  THEN << instructions[1].argval >>
                  ELSE << >>

\* A single jump whose target is its own offset: the returned block is its
\* own successor.
C13_Witness ==
    /\ Returned
    /\ Len(instructions) = 1
    /\ instructions[1].opname \in JUMP_OPCODES
    /\ instructions[1].argval = instructions[1].offset
    /\ blocks[instructions[1].offset].successors
           = << instructions[1].offset >>

\* ------------------------------------------------------------------------
\* The simulators, one instruction at a time
\*
\* One function is simulated: parameters x and y without defaults, the
\* constants (3, 0).  Its argument tuple is empty or (1, 2).  The
\* instructions are drawn one at a time from SimSample, so every sequence
\* of at most MaxSteps of them is simulated, well-formed or not.
\* ------------------------------------------------------------------------

MaxSteps == 3

\* Numbers enter a folded operation with numerator and denominator of at
\* most MaxAbs in magnitude, and exponents and repetition counts of at
\* most MaxExp.
MaxAbs == 64

MaxExp == 3

\* inspect.signature(func).parameters restricted to what _init_locals reads:
\* the parameter names in order and the declared defaults.
Func ==
    [ params   |-> << "x", "y" >>,
      defaults |-> [ name \in {} |-> PyNone ],
      varnames |-> << "x", "y" >>,
      consts   |-> << PyInt(3), PyInt(0) >> ]

ArgsSample == { << >>, << PyInt(1), PyInt(2) >> }

NoKwargs == [ name \in {} |-> PyNone ]

\* StackSimulator._init_locals: positional arguments, then keywords, then
\* defaults of the parameters still unbound.
init_locals(func, args, kwargs) ==
    LET bound == 1..Min(Len(args), Len(func.params))
        positional == { func.params[k] : k \in bound }
        keyword    == DOMAIN kwargs
        defaulted  == DOMAIN func.defaults \ (positional \cup keyword)
    IN  [ name \in positional \cup keyword \cup defaulted |->
            IF name \in keyword THEN kwargs[name]
            ELSE IF name \in positional
            THEN args[CHOOSE k \in bound : func.params[k] = name]
            ELSE func.defaults[name] ]

\* A constructor that takes over the stack of the simulator before it
StackSimulator_Reused(func, args, kwargs) ==
    [ kind     |-> "tracer",
      args     |-> args,
      kwargs   |-> kwargs,
      stack    |-> IF simulator = NoSimulator THEN << >> ELSE simulator.stack,
      locals   |-> init_locals(func, args, kwargs),
      consts   |-> func.consts,
      varnames |-> func.varnames ]

\* StackSimulator.__init__
StackSimulator(func, args, kwargs) ==
    [ kind     |-> "tracer",
      args     |-> args,
      kwargs   |-> kwargs,
      stack    |-> << >>,
      locals   |-> init_locals(func, args, kwargs),
      consts   |-> func.consts,
      varnames |-> func.varnames ]

\* StackAnimator.__init__: co_varnames[:co_argcount] are the parameters.
StackAnimator(func, args) ==
    [ kind     |-> "animator",
      args     |-> args,
      stack    |-> << >>,
      locals   |-> [ name \in { func.params[k] :
                                  k \in 1..Min(Len(args), Len(func.params)) }
                       |-> args[CHOOSE k \in 1..Len(func.params) :
                                    func.params[k] = name] ],
      consts   |-> func.consts,
      varnames |-> func.varnames ]

\* dis.Instruction, the fields the tools read
Instruction(opname, arg, argval, argrepr) ==
    [ opname |-> opname, arg |-> arg, argval |-> argval,
      argrepr |-> argrepr ]

\* BINARY_OP operands as dis numbers and prints them.
BinaryOps ==
    { << 0, << "+" >> >>, << 10, << "-" >> >>, << 5, << "*" >> >>,
      << 11, << "/" >> >>, << 2, << "/", "/" >> >>, << 6, << "%" >> >>,
      << 8, << "*", "*" >> >> }

SimSample ==
    { Instruction("LOAD_CONST", k - 1, Func.consts[k],
                  << Str(Func.consts[k]) >>) : k \in 1..Len(Func.consts) }
    \cup
    { Instruction("BINARY_OP", b[1], PyInt(b[1]), b[2]) : b \in BinaryOps }
    \cup
    { Instruction("CALL", n, PyInt(n), << >>) : n \in { 0, 2 } }
    \cup
    { Instruction("BUILD_LIST", n, PyInt(n), << >>) : n \in { 0, 2 } }
    \cup
    { Instruction("LOAD_FAST", 0, PyStr("x"), << "x" >>),
      Instruction("LOAD_FAST", 1, PyStr("y"), << "y" >>),
      Instruction("LOAD_FAST_LOAD_FAST", 16,
                  PyTuple(<< PyStr("x"), PyStr("y") >>),
                  << "x", ",", " ", "y" >>),
      Instruction("STORE_FAST", 0, PyStr("x"), << "x" >>),
      Instruction("LOAD_GLOBAL", 1, PyStr("f"),
                  << "f", " ", "+", " ", "N", "U", "L", "L" >>),
      Instruction("UNARY_NEGATIVE", None, PyNone, << >>),
      Instruction("UNARY_NOT", None, PyNone, << >>),
      Instruction("RETURN_VALUE", None, PyNone, << >>),
      Instruction("POP_TOP", None, PyNone, << >>),
      Instruction("BUILD_MAP", 2, PyInt(2), << >>) }

\* The instruction at position k of the simulated sequence.
At(instr, k) ==
    [ offset |-> InstrSize * k, opname |-> instr.opname, arg |-> instr.arg,
      argval |-> instr.argval, argrepr |-> instr.argrepr ]

RECURSIVE IsPowerOfTwo(_)
IsPowerOfTwo(d) == d = 1 \/ (d % 2 = 0 /\ IsPowerOfTwo(d \div 2))

Small(v) == Abs(Num(v)) <= MaxAbs /\ Den(v) <= MaxAbs

\* The folds the model computes exactly: small operands, an integral small
\* exponent, and a float result that is a short binary fraction (no
\* rounding) and not a zero whose sign the operands could make negative.
NumbersInBounds(op, left, right) ==
    /\ Small(left)
    /\ Small(right)
    /\ op = "**" => Den(right) = 1 /\ Abs(Num(right)) <= MaxExp
    /\ LET r == Arith(op, left, right)
       IN  (r.ok /\ r.val.t = "float") =>
               /\ IsPowerOfTwo(r.val.d)
               /\ r.val.d <= MaxAbs
               /\ r.val.n = 0 => (Num(left) >= 0 /\ Num(right) >= 0)

NegationInBounds(val) ==
    IsNumber(val) => /\ Small(val)
                     /\ val.t = "float" => val.n # 0

TracerInBounds(self, inst) ==
    LET n     == Len(self.stack)
        right == self.stack[n]
        left  == self.stack[n - 1]
        op    == Join(inst.argrepr)
    IN  /\ (inst.opname = "BINARY_OP" /\ n >= 2
              /\ IsNumber(left) /\ IsNumber(right))
           => NumbersInBounds(op, left, right)
        /\ (inst.opname = "UNARY_NEGATIVE" /\ n >= 1)
           => NegationInBounds(right)

AnimatorInBounds(self, instr) ==
    LET n     == Len(self.stack)
        right == self.stack[n]
        left  == self.stack[n - 1]
        arg   == instr.argval
        op    == CASE ArgIs(arg, "+", 0)  -> "+"
                   [] ArgIs(arg, "-", 1)  -> "-"
                   [] ArgIs(arg, "*", 5)  -> "*"
                   [] ArgIs(arg, "/", 11) -> "/"
                   [] OTHER -> ""
    IN  /\ (instr.opname = "BINARY_OP" /\ n >= 2 /\ op # "")
           => /\ (IsNumber(left) /\ IsNumber(right))
                    => NumbersInBounds(op, left, right)
              /\ (op = "*" /\ IsSequence(left) /\ IsInteger(right))
                    => Num(right) <= MaxExp
              /\ (op = "*" /\ IsInteger(left) /\ IsSequence(right))
                    => Num(left) <= MaxExp
        /\ (instr.opname = "UNARY_NEGATIVE" /\ n >= 1)
           => NegationInBounds(right)
        /\ (instr.opname = "COMPARE_OP" /\ n >= 2
              /\ arg \in { PyStr("<"), PyStr("<="), PyStr(">"), PyStr(">=") })
           => ~(IsSequence(left) /\ right.t = left.t)

Call(self, inst) ==
    [ inst |-> inst, stack |-> self.stack, locals |-> self.locals ]

SimInit ==
    /\ pc = "simulate"
    /\ instructions = << >>
    /\ i = 1
    /\ block_starts = {}
    /\ blocks = EmptyDict
    /\ blocks_order = << >>
    /\ current_block = << >>
    /\ \E args \in ArgsSample :
          simulator \in { StackSimulator(Func, args, NoKwargs),
                          StackAnimator(Func, args) }
    /\ called = NoCall
    /\ step = NoStep
    /\ raised = FALSE
    /\ steps = << >>
    /\ count = 0
    /\ previous = NoRun

\* One call of StackSimulator.simulate_instruction.
Simulate ==
    /\ pc = "simulate"
    /\ simulator.kind = "tracer"
    /\ ~raised
    /\ count < MaxSteps
    /\ \E instr \in SimSample :
          LET inst == At(instr, count)
              r    == simulate_instruction(simulator, inst)
          IN  /\ TracerInBounds(simulator, inst)
              /\ called' = Call(simulator, inst)
              /\ simulator' = [ simulator EXCEPT !.stack = r.stack,
                                                 !.locals = r.locals ]
              /\ step' = r.step
              /\ raised' = r.raised
    /\ count' = count + 1
    /\ UNCHANGED << steps, previous >>
    /\ UNCHANGED cfgVars

\* One call of StackAnimator._simulate_instruction from the loop of
\* animate, which ends when the call returns False.
Animate ==
    /\ pc = "simulate"
    /\ simulator.kind = "animator"
    /\ ~raised
    /\ count < MaxSteps
    /\ \E instr \in SimSample :
          LET inst == At(instr, count)
              r    == animator_simulate_instruction(simulator, inst)
          IN  /\ AnimatorInBounds(simulator, inst)
              /\ called' = Call(simulator, inst)
              /\ simulator' = [ simulator EXCEPT !.stack = r.stack,
                                                 !.locals = r.locals ]
              /\ raised' = r.raised
              /\ pc' = IF r.continue THEN pc ELSE "returned"
    /\ count' = count + 1
    /\ UNCHANGED << step, steps, previous >>
    /\ UNCHANGED << instructions, i, block_starts, blocks, blocks_order,
                    current_block >>

SimNext ==
    \/ Simulate
    \/ Animate

SimSpec == SimInit /\ [][SimNext]_vars

\* ------------------------------------------------------------------------
\* Vocabulary of the simulator properties
\* ------------------------------------------------------------------------

\* simulate_instruction of the StackSimulator has been called; `called`
\* holds the instruction and the state it started from.
TracerCalled == simulator.kind = "tracer" /\ called # NoCall

AnimatorCalled == simulator.kind = "animator" /\ called # NoCall

\* The operand count N of the last instruction.
OperandN == IF called.inst.arg = None THEN 0 ELSE called.inst.arg

\* The opcodes whose net stack effect is known statically.
STATIC_EFFECT_OPCODES ==
    { "LOAD_CONST", "LOAD_FAST", "STORE_FAST", "BINARY_OP", "UNARY_NEGATIVE",
      "UNARY_NOT", "POP_TOP", "RETURN_VALUE", "CALL", "BUILD_LIST",
      "BUILD_TUPLE" }

\* The net effects the statement allows the last instruction.
NetEffects ==
    LET opname == called.inst.opname
    IN  CASE opname \in { "LOAD_CONST", "LOAD_FAST" } -> { 1 }
          [] opname \in { "STORE_FAST", "BINARY_OP", "POP_TOP",
                          "RETURN_VALUE" } -> { -1 }
          [] opname \in { "UNARY_NEGATIVE", "UNARY_NOT" } -> { 0 }
          [] opname = "CALL" -> { -OperandN, -(OperandN + 1) }
          [] opname \in { "BUILD_LIST", "BUILD_TUPLE" } -> { 1 - OperandN }

\* How many values the last instruction takes from the stack: a call takes
\* its arguments and the callable, a mapping build two values per entry.
Consumes ==
    LET opname == called.inst.opname
    IN  CASE opname \in { "STORE_FAST", "UNARY_NEGATIVE", "UNARY_NOT",
                          "POP_TOP", "RETURN_VALUE" } -> 1
          [] opname = "BINARY_OP" -> 2
          [] opname = "CALL" -> OperandN + 1
          [] opname \in { "BUILD_LIST", "BUILD_TUPLE" } -> OperandN
          [] opname = "BUILD_MAP" -> 2 * OperandN
          [] OTHER -> 0

\* len(stack_after) - len(stack_before) of the step returned last
NetEffect == Len(step.stack_after) - Len(step.stack_before)

\* The value under the N arguments of a call is the receiver marker.
MarkerUnderArguments ==
    /\ Len(called.stack) > OperandN
    /\ called.stack[Len(called.stack) - OperandN] = PyNone

\* ------------------------------------------------------------------------
\* C15: stack balance
\* ------------------------------------------------------------------------

\* C15 (stack balance, as stated): for every instruction with a statically
\* known net stack effect, simulated in any reachable state of the
\* StackSimulator, an empty or too-short stack included, the recorded step
\* has len(stack_after) - len(stack_before) equal to that net effect.
C15_StackBalance ==
    (TracerCalled /\ ~raised
        /\ called.inst.opname \in STATIC_EFFECT_OPCODES)
    => NetEffect \in NetEffects

\* C15 (stack balance, amended): the same, for the states whose stack holds
\* at least the values the instruction consumes; a call has net effect
\* -(N+1) when the receiver marker lies under its N arguments and -N
\* otherwise.
C15_StackBalanceAmended ==
    (TracerCalled /\ ~raised
        /\ called.inst.opname \in STATIC_EFFECT_OPCODES
        /\ Len(called.stack) >= Consumes)
    => /\ step.stack_before = called.stack
       /\ NetEffect \in NetEffects
       /\ called.inst.opname = "CALL" =>
             NetEffect = IF MarkerUnderArguments THEN -(OperandN + 1)
                         ELSE -OperandN

\* A call without arguments on a callable placeholder and a marker: two
\* values leave the stack and one is pushed.
C15_Witness ==
    /\ TracerCalled
    /\ ~raised
    /\ called.inst.opname = "CALL"
    /\ OperandN = 0
    /\ called.stack = << PyStr("<f>"), PyNone >>
    /\ Len(step.stack_after) = 1

\* ------------------------------------------------------------------------
\* C16: concrete folding of arithmetic
\* ------------------------------------------------------------------------

FOLDED_OPERATORS == { "+", "-", "*", "/", "//", "%", "**" }

\* The last instruction was a binary arithmetic instruction with a folded
\* operator on two numbers.
FoldCase ==
    /\ TracerCalled
    /\ called.inst.opname = "BINARY_OP"
    /\ Join(called.inst.argrepr) \in FOLDED_OPERATORS
    /\ Len(called.stack) >= 2
    /\ IsNumber(called.stack[Len(called.stack)])
    /\ IsNumber(called.stack[Len(called.stack) - 1])

\* C16 (concrete folding): a binary arithmetic instruction with operator in
\* {+,-,*,/,//,%,**} on two numbers pops right then left and pushes the
\* number the host computes for `left OP right` (2 + 3 gives 5); when the
\* host raises (1 / 0) it pushes the text '(left OP right)'; no error
\* leaves the simulator.
C16_ArithmeticFolding ==
    FoldCase =>
        LET n     == Len(called.stack)
            right == called.stack[n]
            left  == called.stack[n - 1]
            op    == Join(called.inst.argrepr)
            host  == Arith(op, left, right)
            text  == PyStr("(" \o Str(left) \o " " \o op \o " "
                               \o Str(right) \o ")")
            pushed == step.stack_after[n - 1]
        IN  /\ ~raised
            /\ step.stack_after =
                  Append(SubSeq(called.stack, 1, n - 2),
                         IF host.ok THEN host.val ELSE text)
            /\ (left = PyInt(2) /\ right = PyInt(3) /\ op = "+")
                  => pushed = PyInt(5)
            /\ (left = PyInt(2) /\ right = PyInt(3) /\ op = "-")
                  => pushed = PyInt(-1)
            /\ (left = PyInt(1) /\ right = PyInt(2) /\ op = "/")
                  => pushed = PyFloat(1, 2)
            /\ (left = PyInt(1) /\ right = PyInt(0) /\ op = "/")
                  => pushed = PyStr("(1 / 0)")

\* push 1; push 0; divide ends with the text in place of a number.
C16_Witness ==
    /\ FoldCase
    /\ called.stack = << PyInt(1), PyInt(0) >>
    /\ Join(called.inst.argrepr) = "/"
    /\ ~raised
    /\ simulator.stack = << PyStr("(1 / 0)") >>

\* ------------------------------------------------------------------------
\* C17: arithmetic fold failures never propagate
\* ------------------------------------------------------------------------

OPERATOR_OPCODES == { "BINARY_OP", "UNARY_NEGATIVE", "UNARY_NOT" }

\* C17 (fold failures never propagate): for every binary or unary operator
\* instruction and every operand or pair of operands on the stack, both
\* simulators finish the step with one value pushed in place of the
\* operands, and no error leaves the simulation.
C17_NoPropagation ==
    (called # NoCall /\ called.inst.opname \in OPERATOR_OPCODES
        /\ Len(called.stack) >= Consumes)
    => /\ ~raised
       /\ Len(simulator.stack) = Len(called.stack) - Consumes + 1

\* ------------------------------------------------------------------------
\* C18: graceful degradation on malformed streams
\* ------------------------------------------------------------------------

\* C18 (graceful degradation): for every instruction and every reachable
\* state of the StackSimulator whose stack holds fewer values than the
\* instruction consumes, simulate_instruction raises no error and returns
\* an ExecutionStep for that instruction.
C18_GracefulDegradation ==
    (TracerCalled /\ Len(called.stack) < Consumes)
    => /\ ~raised
       /\ step # NoStep
       /\ step.offset = called.inst.offset
       /\ step.opcode = called.inst.opname

\* ------------------------------------------------------------------------
\* C20: call handling
\* ------------------------------------------------------------------------

\* Where the callable of the last CALL lies in the stack it started from:
\* under the N arguments, or under the receiver marker that is under them.
CallableAt ==
    IF MarkerUnderArguments THEN Len(called.stack) - OperandN - 1
    ELSE Len(called.stack) - OperandN

\* The last instruction was a CALL on a stack holding a callable
\* placeholder, optionally the marker, and the N arguments.
CallCase ==
    /\ TracerCalled
    /\ called.inst.opname = "CALL"
    /\ CallableAt >= 1
    /\ called.stack[CallableAt].t = "str"

\* 'arg1, ..., argN' for the argument counts simulated
ArgsText(args) ==
    CASE Len(args) = 0 -> ""
      [] Len(args) = 1 -> Str(args[1])
      [] Len(args) = 2 -> Str(args[1]) \o ", " \o Str(args[2])

\* C20 (call handling): a CALL with operand N on a stack holding a callable
\* placeholder, optionally a receiver marker, and N argument values leaves
\* the stack below the callable as it was and pushes exactly one value, the
\* text 'callable(arg1, ..., argN)' with the arguments in the order they
\* were pushed; for <f>, the marker and the arguments 1 and 2 the value is
\* '<f>(1, 2)'.
C20_CallHandling ==
    CallCase =>
        LET n    == Len(called.stack)
            args == SubSeq(called.stack, n - OperandN + 1, n)
            func == called.stack[CallableAt]
        IN  /\ ~raised
            /\ step.stack_after =
                  Append(SubSeq(called.stack, 1, CallableAt - 1),
                         PyStr(func.s \o "(" \o ArgsText(args) \o ")"))
            /\ called.stack = << PyStr("<f>"), PyNone, PyInt(1), PyInt(2) >>
                  => step.stack_after = << PyStr("<f>(1, 2)") >>

\* The global placeholder <f> with its marker, two numeric arguments, and
\* the call of them.
C20_Witness ==
    /\ CallCase
    /\ OperandN = 2
    /\ called.stack = << PyStr("<f>"), PyNone, PyInt(1), PyInt(2) >>
    /\ simulator.stack = << PyStr("<f>(1, 2)") >>

\* ------------------------------------------------------------------------
\* Analyses of one function: extract_basic_blocks, then trace_execution,
\* then both again on the same input
\*
\* The instruction list has at most MaxLen instructions drawn from
\* TraceSample; the function is Func and its arguments are (1, 2).  The
\* second analysis starts from whatever the first one left in the
\* variables: a value it reads must be one it has assigned itself.
\* ------------------------------------------------------------------------

\* Instruction forms with the operand as both tools read it: arg and
\* argrepr for the simulator, argval (resolved target or None) for
\* extract_basic_blocks.
TraceSample ==
    { Instruction("LOAD_CONST", 0, None, << "3" >>),
      Instruction("LOAD_FAST", 0, None, << "x" >>),
      Instruction("STORE_FAST", 0, None, << "x" >>),
      Instruction("BINARY_OP", 0, None, << "+" >>),
      Instruction("RETURN_VALUE", None, None, << >>),
      Instruction("RETURN_CONST", 1, None, << "0" >>),
      Instruction("POP_JUMP_IF_FALSE", 0, 0, << "t", "o", " ", "0" >>),
      Instruction("POP_JUMP_IF_FALSE", 2, InstrSize * 2,
                  << "t", "o", " ", "4" >>) }

TraceArgs == << PyInt(1), PyInt(2) >>

TraceInit ==
    /\ \E n \in 0..MaxLen :
          \E c \in [ 1..n -> TraceSample ] :
              instructions = [ k \in 1..n |-> At(c[k], k - 1) ]
    /\ pc = "start"
    /\ i = 1
    /\ block_starts = {}
    /\ blocks = EmptyDict
    /\ blocks_order = << >>
    /\ current_block = << >>
    /\ NoSimulation

\* trace_execution up to its loop: the simulator is created and `steps`
\* is the empty list.
TraceStart ==
    /\ pc = "done"
    /\ simulator' = StackSimulator(Func, TraceArgs, NoKwargs)
    /\ steps' = << >>
    /\ count' = 0
    /\ called' = NoCall
    /\ step' = NoStep
    /\ pc' = "trace"
    /\ UNCHANGED << instructions, i, block_starts, blocks, blocks_order,
                    current_block, raised, previous >>

\* A list of steps whose stacks are all the simulator's own list instead of
\* copies of it: every recorded stack shows the stack as it is now.
append_Shared(trace, new) ==
    [ k \in 1..(Len(trace) + 1) |->
        [ (IF k <= Len(trace) THEN trace[k] ELSE new) EXCEPT
            !.stack_before = new.stack_after,
            !.stack_after  = new.stack_after ] ]

\* `steps.append(step)`: the step holds copies of the stack and the locals
\* (_get_stack_copy, _get_locals_copy), so the steps recorded before are
\* what they were.
append(trace, new) == Append(trace, new)

\* One iteration of `for inst in instructions` of trace_execution; an
\* exception of simulate_instruction leaves trace_execution.
TraceStep ==
    /\ pc = "trace"
    /\ ~raised
    /\ count < Len(instructions)
    /\ LET inst == instructions[count + 1]
           r    == simulate_instruction(simulator, inst)
       IN  /\ TracerInBounds(simulator, inst)
           /\ called' = Call(simulator, inst)
           /\ simulator' = [ simulator EXCEPT !.stack = r.stack,
                                              !.locals = r.locals ]
           /\ step' = r.step
           /\ raised' = r.raised
           /\ steps' = IF r.raised THEN steps ELSE append(steps, r.step)
    /\ count' = count + 1
    /\ UNCHANGED previous
    /\ UNCHANGED cfgVars

\* `return steps`
TraceReturn ==
    /\ pc = "trace"
    /\ ~raised
    /\ count >= Len(instructions)
    /\ pc' = "traced"
    /\ UNCHANGED << instructions, i, block_starts, blocks, blocks_order,
                    current_block >>
    /\ UNCHANGED simVars

\* The caller keeps what the two functions returned and analyses the same
\* function again.
Again ==
    /\ pc = "traced"
    /\ previous = NoRun
    /\ previous' = [ blocks |-> blocks, order |-> blocks_order,
                     steps |-> steps ]
    /\ pc' = "start"
    /\ UNCHANGED << instructions, i, block_starts, blocks, blocks_order,
                    current_block, simulator, called, step, raised, steps,
                    count >>

TraceNext ==
    \/ ReturnEmpty
    \/ FirstStart
    \/ MarkStep
    \/ MarkDone
    \/ GroupStep
    \/ GroupDone
    \/ EdgeStep
    \/ Return
    \/ TraceStart
    \/ TraceStep
    \/ TraceReturn
    \/ Again

TraceSpec == TraceInit /\ [][TraceNext]_vars

\* ------------------------------------------------------------------------
\* Vocabulary of the analysis properties
\* ------------------------------------------------------------------------

\* extract_basic_blocks has returned in the running analysis.
BlocksReturned == pc \in { "done", "trace", "traced" }

\* trace_execution has returned; `steps` is the returned trace.
Traced == pc = "traced"

RETURN_OPCODES == { "RETURN_VALUE", "RETURN_CONST" }

ReturnPositions ==
    { k \in DOMAIN instructions : instructions[k].opname \in RETURN_OPCODES }

\* The number of instructions up to and including the first return, or of
\* all instructions when there is no return.
UpToFirstReturn ==
    IF ReturnPositions = {} THEN Len(instructions)
    ELSE CHOOSE k \in ReturnPositions : \A m \in ReturnPositions : k <= m

\* ------------------------------------------------------------------------
\* C12: empty input
\* ------------------------------------------------------------------------

\* C12 (empty input is not an error): on an empty instruction sequence
\* extract_basic_blocks returns an empty block mapping and trace_execution
\* returns an empty trace, and no error is raised.
C12_EmptyInput ==
    instructions = << >> =>
        /\ ~raised
        /\ BlocksReturned => DOMAIN blocks = {} /\ blocks_order = << >>
        /\ Traced => steps = << >>

\* Both functions have returned on the empty sequence.
C12_Witness ==
    /\ instructions = << >>
    /\ Traced
    /\ DOMAIN blocks = {}
    /\ steps = << >>

\* ------------------------------------------------------------------------
\* C14: trace termination
\* ------------------------------------------------------------------------

\* C14 (trace termination): the trace has one step per instruction up to
\* and including the first return instruction in sequence order and no step
\* for a later instruction; without a return it has one step per
\* instruction.
C14_TraceTermination ==
    Traced =>
        /\ Len(steps) = UpToFirstReturn
        /\ \A k \in DOMAIN steps : steps[k].offset = instructions[k].offset

\* ------------------------------------------------------------------------
\* C19: idempotence
\* ------------------------------------------------------------------------

\* C19 (idempotence): the second analysis of the same instruction sequence
\* with the same arguments returns the block mapping of the first (same
\* keys in the same order, same instructions, successor order and edge
\* kinds) and the trace of the first; nothing the first analysis left
\* behind is visible in the second.
C19_Idempotence ==
    previous # NoRun =>
        /\ BlocksReturned =>
              /\ blocks = previous.blocks
              /\ blocks_order = previous.order
        /\ Traced => steps = previous.steps

\* A second analysis has returned for a sequence of several blocks whose
\* first simulation ended with a value left on the stack.
C19_Witness ==
    /\ previous # NoRun
    /\ Traced
    /\ Cardinality(DOMAIN blocks) >= 2
    /\ Len(steps) >= 2
    /\ previous.steps[Len(previous.steps)].stack_after # << >>
    /\ steps[1].stack_before = << >>
    /\ steps = previous.steps

\* ------------------------------------------------------------------------
\* Scenarios: extract_basic_blocks on the functions of test_cfg_visualizer.py
\* ------------------------------------------------------------------------

\* One decoded instruction of a scenario: argval is the resolved target of
\* a jump, the integer operand where dis reports one, and None otherwise
\* (a name, or no operand).
Decoded(offset, opname, argval) ==
    [ offset |-> offset, opname |-> opname, argval |-> argval ]

\* simple_if(x): `if x > 0: return x else: return -x`, as CPython 3.11
\* decodes it (inline caches leave gaps in the offsets).
simple_if_311 ==
    << Decoded(0, "RESUME", 0),
       Decoded(2, "LOAD_FAST", None),
       Decoded(4, "LOAD_CONST", 0),
       Decoded(6, "COMPARE_OP", None),
       Decoded(12, "POP_JUMP_FORWARD_IF_FALSE", 18),
       Decoded(14, "LOAD_FAST", None),
       Decoded(16, "RETURN_VALUE", None),
       Decoded(18, "LOAD_FAST", None),
       Decoded(20, "UNARY_NEGATIVE", None),
       Decoded(22, "RETURN_VALUE", None) >>

\* The same function in the instruction set of CPython 3.12, where the
\* conditional jump is POP_JUMP_IF_FALSE.
simple_if_312 ==
    << Decoded(0, "RESUME", 0),
       Decoded(2, "LOAD_FAST", None),
       Decoded(4, "LOAD_CONST", 0),
       Decoded(6, "COMPARE_OP", None),
       Decoded(10, "POP_JUMP_IF_FALSE", 16),
       Decoded(12, "LOAD_FAST", None),
       Decoded(14, "RETURN_VALUE", None),
       Decoded(16, "LOAD_FAST", None),
       Decoded(18, "UNARY_NEGATIVE", None),
       Decoded(20, "RETURN_VALUE", None) >>

\* for_loop(n): `total = 0; for i in range(n): total += i; return total`,
\* as CPython 3.11 decodes it.
for_loop_311 ==
    << Decoded(0, "RESUME", 0),
       Decoded(2, "LOAD_CONST", 0),
       Decoded(4, "STORE_FAST", None),
       Decoded(6, "LOAD_GLOBAL", None),
       Decoded(18, "LOAD_FAST", None),
       Decoded(20, "PRECALL", 1),
       Decoded(24, "CALL", 1),
       Decoded(34, "GET_ITER", None),
       Decoded(36, "FOR_ITER", 52),
       Decoded(38, "STORE_FAST", None),
       Decoded(40, "LOAD_FAST", None),
       Decoded(42, "LOAD_FAST", None),
       Decoded(44, "BINARY_OP", 13),
       Decoded(48, "STORE_FAST", None),
       Decoded(50, "JUMP_BACKWARD", 36),
       Decoded(52, "LOAD_FAST", None),
       Decoded(54, "RETURN_VALUE", None) >>

\* The same function in the instruction set of CPython 3.12, where the
\* loop exit is an END_FOR instruction.
for_loop_312 ==
    << Decoded(0, "RESUME", 0),
       Decoded(2, "LOAD_CONST", 0),
       Decoded(4, "STORE_FAST", None),
       Decoded(6, "LOAD_GLOBAL", None),
       Decoded(16, "LOAD_FAST", None),
       Decoded(18, "CALL", 1),
       Decoded(26, "GET_ITER", None),
       Decoded(28, "FOR_ITER", 46),
       Decoded(32, "STORE_FAST", None),
       Decoded(34, "LOAD_FAST", None),
       Decoded(36, "LOAD_FAST", None),
       Decoded(38, "BINARY_OP", 13),
       Decoded(42, "STORE_FAST", None),
       Decoded(44, "JUMP_BACKWARD", 28),
       Decoded(46, "END_FOR", None),
       Decoded(48, "LOAD_FAST", None),
       Decoded(50, "RETURN_VALUE", None) >>

BranchScenarios == { simple_if_311, simple_if_312 }

LoopScenarios == { for_loop_311, for_loop_312 }

\* `extract_basic_blocks(simple_if)` and `extract_basic_blocks(for_loop)`:
\* the instruction list is one of the scenarios.
ScenarioInit ==
    /\ instructions \in BranchScenarios \cup LoopScenarios
    /\ pc = "start"
    /\ i = 1
    /\ block_starts = {}
    /\ blocks = EmptyDict
    /\ blocks_order = << >>
    /\ current_block = << >>
    /\ NoSimulation

\* The steps of extract_basic_blocks on a non-empty instruction list.
ScenarioNext ==
    \/ FirstStart
    \/ MarkStep
    \/ MarkDone
    \/ GroupStep
    \/ GroupDone
    \/ EdgeStep
    \/ Return

ScenarioSpec == ScenarioInit /\ [][ScenarioNext]_vars

\* ------------------------------------------------------------------------
\* Vocabulary of the scenario properties
\* ------------------------------------------------------------------------

\* Position in the input of its conditional jump or FOR_ITER (each scenario
\* has exactly one).
BranchIndex ==
    CHOOSE j \in DOMAIN instructions :
        instructions[j].opname \in CONDITIONAL_FAMILY

\* The resolved target of that instruction.
BranchTarget == instructions[BranchIndex].argval

\* The offset of the instruction after it.
FallThrough == instructions[BranchIndex + 1].offset

\* The entry block: the block with the lowest start offset.
EntryKey == CHOOSE k \in DOMAIN blocks : \A x \in DOMAIN blocks : k <= x

\* The block stored under k has exactly the two edges s and t, both marked
\* conditional.
TwoConditionalEdges(k, s, t) ==
    /\ Len(blocks[k].successors) = 2
    /\ Range(blocks[k].successors) = { s, t }
    /\ s # t
    /\ blocks[k].is_conditional[s]
    /\ blocks[k].is_conditional[t]

\* C21 (scenario, branch): for the instruction sequence of simple_if,
\* extract_basic_blocks returns at least 3 blocks, and the entry block has
\* exactly two successors, the branch target and the fall-through block,
\* both marked conditional.
C21_BranchScenario ==
    Returned /\ instructions \in BranchScenarios =>
        /\ Cardinality(DOMAIN blocks) >= 3
        /\ { BranchTarget, FallThrough } \subseteq DOMAIN blocks
        /\ TwoConditionalEdges(EntryKey, BranchTarget, FallThrough)

\* extract_basic_blocks has returned for simple_if, and its entry block,
\* which starts at the first instruction and ends with the conditional
\* jump, has two successors.
C21_Witness ==
    /\ Returned
    /\ instructions \in BranchScenarios
    /\ EntryKey = instructions[1].offset
    /\ LastOp(EntryKey) \in CONDITIONAL_FAMILY
    /\ Len(blocks[EntryKey].successors) = 2

\* C22 (scenario, loop): for the instruction sequence of for_loop,
\* extract_basic_blocks returns at least 3 blocks, and one of them ends with
\* FOR_ITER and has two conditional edges: one to the loop body, which is
\* the next block in offset order, and one to the post-loop block, which is
\* the resolved target of FOR_ITER.
C22_LoopScenario ==
    Returned /\ instructions \in LoopScenarios =>
        /\ Cardinality(DOMAIN blocks) >= 3
        /\ \E k \in DOMAIN blocks :
              /\ LastOp(k) = "FOR_ITER"
              /\ FallThrough = NextKey(k)
              /\ BranchTarget = LastArg(k)
              /\ BranchTarget \in DOMAIN blocks
              /\ TwoConditionalEdges(k, FallThrough, BranchTarget)

\* extract_basic_blocks has returned for for_loop with a block that ends
\* with FOR_ITER, is entered by the backward jump of the loop and has two
\* successors.
C22_Witness ==
    /\ Returned
    /\ instructions \in LoopScenarios
    /\ \E k \in DOMAIN blocks :
          /\ LastOp(k) = "FOR_ITER"
          /\ Len(blocks[k].successors) = 2
          /\ \E b \in DOMAIN blocks :
                /\ LastOp(b) = "JUMP_BACKWARD"
                /\ blocks[b].successors = << k >>

\* ------------------------------------------------------------------------
\* The simulators on comparisons, branches, fused stores and the opcodes
\* left to the fallback, for a function with a default value
\*
\* As in SimSpec the instructions are drawn one at a time, here from
\* StepSample and for at most MaxOps of them; the function has a parameter
\* with a declared default, and the tracer is also given keyword arguments.
\* ------------------------------------------------------------------------

MaxOps == 3

\* `def f(x, y=7)` with the constant 3, as _init_locals and the animator's
\* constructor read it.
StepFunc ==
    [ params   |-> << "x", "y" >>,
      defaults |-> [ name \in { "y" } |-> PyInt(7) ],
      varnames |-> << "x", "y" >>,
      consts   |-> << PyInt(3) >> ]

StepArgs == { << >>, << PyInt(1) >>, << PyInt(1), PyInt(2) >> }

StepKwargs == { NoKwargs, [ name \in { "y" } |-> PyInt(5) ] }

\* The names bound by position: the first len(args) parameters.
Positional(func, args) ==
    { func.params[k] : k \in 1..Min(Len(args), Len(func.params)) }

\* A call the function itself accepts: no parameter is given twice and
\* every keyword names a parameter.
Accepted(func, args, kwargs) ==
    /\ Len(args) <= Len(func.params)
    /\ DOMAIN kwargs \subseteq Range(func.params)
    /\ DOMAIN kwargs \cap Positional(func, args) = {}

Target == InstrSize * MaxOps

JumpText == << "t", "o", " " >> \o << ToString(Target) >>

StepSample ==
    { Instruction("LOAD_CONST", 0, StepFunc.consts[1],
                  << Str(StepFunc.consts[1]) >>),
      Instruction("LOAD_FAST_LOAD_FAST", 1,
                  PyTuple(<< PyStr("x"), PyStr("y") >>),
                  << "x", ",", " ", "y" >>),
      Instruction("STORE_FAST_STORE_FAST", 1,
                  PyTuple(<< PyStr("x"), PyStr("y") >>),
                  << "x", ",", " ", "y" >>),
      Instruction("COMPARE_OP", 0, PyStr("<"), << "<" >>),
      Instruction("COMPARE_OP", 2, PyStr("=="), << "=", "=" >>),
      Instruction("NOP", None, PyNone, << >>),
      Instruction("BINARY_SUBSCR", None, PyNone, << >>),
      Instruction("LOAD_NAME", 0, PyStr("g"), << "g" >>),
      Instruction("STORE_NAME", 0, PyStr("g"), << "g" >>),
      Instruction("UNPACK_SEQUENCE", 2, PyInt(2), << >>) }
    \cup
    { Instruction(o, 1, PyInt(Target), JumpText) :
        o \in { "JUMP_FORWARD", "JUMP_BACKWARD",
                "POP_JUMP_IF_FALSE", "POP_JUMP_IF_TRUE",
                "JUMP_IF_TRUE_OR_POP", "JUMP_IF_FALSE_OR_POP",
                "POP_JUMP_FORWARD_IF_FALSE", "POP_JUMP_BACKWARD_IF_TRUE" } }

\* StackSimulator(func, args, kwargs) or StackAnimator(func, args) has
\* been constructed.
StepInit ==
    /\ pc = "simulate"
    /\ instructions = << >>
    /\ i = 1
    /\ block_starts = {}
    /\ blocks = EmptyDict
    /\ blocks_order = << >>
    /\ current_block = << >>
    /\ \E args \in StepArgs :
          \/ \E kwargs \in StepKwargs :
                /\ Accepted(StepFunc, args, kwargs)
                /\ simulator = StackSimulator(StepFunc, args, kwargs)
          \/ simulator = StackAnimator(StepFunc, args)
    /\ called = NoCall
    /\ step = NoStep
    /\ raised = FALSE
    /\ steps = << >>
    /\ count = 0
    /\ previous = NoRun

\* One call of StackSimulator.simulate_instruction.
StepSimulate ==
    /\ pc = "simulate"
    /\ simulator.kind = "tracer"
    /\ ~raised
    /\ count < MaxOps
    /\ \E instr \in StepSample :
          LET inst == At(instr, count)
              r    == simulate_instruction(simulator, inst)
          IN  /\ TracerInBounds(simulator, inst)
              /\ called' = Call(simulator, inst)
              /\ simulator' = [ simulator EXCEPT !.stack = r.stack,
                                                 !.locals = r.locals ]
              /\ step' = r.step
              /\ raised' = r.raised
    /\ count' = count + 1
    /\ UNCHANGED << steps, previous >>
    /\ UNCHANGED cfgVars

\* One call of StackAnimator._simulate_instruction from the loop of
\* animate.
StepAnimate ==
    /\ pc = "simulate"
    /\ simulator.kind = "animator"
    /\ ~raised
    /\ count < MaxOps
    /\ \E instr \in StepSample :
          LET inst == At(instr, count)
              r    == animator_simulate_instruction(simulator, inst)
          IN  /\ AnimatorInBounds(simulator, inst)
              /\ called' = Call(simulator, inst)
              /\ simulator' = [ simulator EXCEPT !.stack = r.stack,
                                                 !.locals = r.locals ]
              /\ raised' = r.raised
              /\ pc' = IF r.continue THEN pc ELSE "returned"
    /\ count' = count + 1
    /\ UNCHANGED << step, steps, previous >>
    /\ UNCHANGED << instructions, i, block_starts, blocks, blocks_order,
                    current_block >>

StepNext ==
    \/ StepSimulate
    \/ StepAnimate

StepSpec == StepInit /\ [][StepNext]_vars

\* ------------------------------------------------------------------------
\* Vocabulary of the step properties
\* ------------------------------------------------------------------------

\* The last call of a simulator method; `called` holds the instruction and
\* the stack and locals it started from.
LastOpname == called.inst.opname

StackBefore == called.stack

\* A comparison was simulated on a stack holding both operands.
ComparisonCase ==
    /\ called # NoCall
    /\ LastOpname = "COMPARE_OP"
    /\ Len(StackBefore) >= 2

RightOperand == StackBefore[Len(StackBefore)]

LeftOperand == StackBefore[Len(StackBefore) - 1]

\* The boolean the host's comparison operator gives for two numbers.
HostComparison(op, left, right) ==
    IF op = "==" THEN PyBool(PyEq(left, right))
    ELSE IF op = "!=" THEN PyBool(~PyEq(left, right))
    ELSE PyOrder(op, left, right).val

\* C23 (comparison folding): a comparison pops two operands, right first
\* and then left, and pushes the concretely evaluated boolean when both are
\* numeric scalars, and the display text "(left OP right)" only when an
\* operand is not numeric.
C23_ComparisonFolding ==
    ComparisonCase =>
        LET op == Join(called.inst.argrepr)
        IN  simulator.stack =
                Append(PopN(StackBefore, 2),
                       IF IsNumber(LeftOperand) /\ IsNumber(RightOperand)
                       THEN HostComparison(op, LeftOperand, RightOperand)
                       ELSE BinaryText(LeftOperand, op, RightOperand))

\* The same statement for the StackAnimator alone and numeric operands.
AnimatorFoldsNumbers ==
    (ComparisonCase /\ simulator.kind = "animator"
       /\ IsNumber(LeftOperand) /\ IsNumber(RightOperand)) =>
        simulator.stack =
            Append(PopN(StackBefore, 2),
                   HostComparison(Join(called.inst.argrepr),
                                  LeftOperand, RightOperand))

\* The StackSimulator never folds: it pushes the display text whatever the
\* operands are.
TracerNeverFolds ==
    (ComparisonCase /\ simulator.kind = "tracer") =>
        simulator.stack =
            Append(PopN(StackBefore, 2),
                   BinaryText(LeftOperand, Join(called.inst.argrepr),
                              RightOperand))

\* The opcodes of StepSample that simulate_instruction does not name: they
\* reach its else branch.
UNMODELLED_OPCODES ==
    { "NOP", "BINARY_SUBSCR", "LOAD_NAME", "STORE_NAME", "UNPACK_SEQUENCE",
      "POP_JUMP_FORWARD_IF_FALSE", "POP_JUMP_BACKWARD_IF_TRUE" }

\* An instruction left to the fallback was simulated by the StackSimulator.
FallbackCalled == TracerCalled /\ LastOpname \in UNMODELLED_OPCODES

\* The lookup of the fallback answers for the last instruction.
LookupAnswers == stack_effect(LastOpname, OperandN).ok

\* How many values the host's instruction takes from the stack and how many
\* it puts there (the documented behaviour of the opcode).
ValuesConsumed ==
    CASE LastOpname \in { "STORE_NAME", "UNPACK_SEQUENCE",
                          "POP_JUMP_FORWARD_IF_FALSE",
                          "POP_JUMP_BACKWARD_IF_TRUE" } -> 1
      [] LastOpname = "BINARY_SUBSCR" -> 2
      [] OTHER -> 0

ValuesProduced ==
    CASE LastOpname \in { "LOAD_NAME", "BINARY_SUBSCR" } -> 1
      [] LastOpname = "UNPACK_SEQUENCE" -> OperandN
      [] OTHER -> 0

\* n generic placeholders for the results of the last instruction
Placeholders(n) == [ k \in 1..n |-> Placeholder(LastOpname \o "_result") ]

\* C24 (fallback for unmodelled opcodes): for an opcode outside the explicit
\* table for which the lookup reports c values consumed and p values
\* produced, stack_after is stack_before without its top c values, followed
\* by p generic placeholders, also when c > 0 and p > 0 at once.
C24_FallbackEffect ==
    (FallbackCalled /\ LookupAnswers) =>
        /\ step # NoStep
        /\ step.stack_after =
              PopN(StackBefore, ValuesConsumed) \o Placeholders(ValuesProduced)

\* The same statement for the opcodes that only consume or only produce.
FallbackOneSided ==
    (FallbackCalled /\ LookupAnswers
       /\ (ValuesConsumed = 0 \/ ValuesProduced = 0)) =>
        /\ step # NoStep
        /\ step.stack_after =
              PopN(StackBefore, ValuesConsumed) \o Placeholders(ValuesProduced)

\* C25 (unknown opcode is a recorded no-op): for an opcode outside the
\* explicit table for which the lookup gives no answer, simulate_instruction
\* raises nothing and returns the ExecutionStep of the instruction with
\* stack_after equal to stack_before; the locals are unchanged and the
\* simulator goes on to the next instruction.
C25_UnknownOpcodeNoOp ==
    (FallbackCalled /\ ~LookupAnswers) =>
        /\ ~raised
        /\ step # NoStep
        /\ step.offset = called.inst.offset
        /\ step.opcode = LastOpname
        /\ step.stack_before = StackBefore
        /\ step.stack_after = StackBefore
        /\ step.locals_snapshot = called.locals
        /\ simulator.stack = StackBefore
        /\ simulator.locals = called.locals
        /\ pc = "simulate"

\* BINARY_SUBSCR, for which the lookup gives no answer, was simulated after
\* other instructions on a stack of two values, and a step was returned.
C25_Witness ==
    /\ FallbackCalled
    /\ ~LookupAnswers
    /\ LastOpname = "BINARY_SUBSCR"
    /\ Len(StackBefore) >= 2
    /\ count >= 2
    /\ step # NoStep

\* The conditional branches: the jumps whose name carries a condition.
CONDITIONAL_BRANCHES ==
    { o \in JUMP_OPCODES \cup TRACER_JUMPS :
        ContainsIF(o) /\ o # "JUMP_IF_NOT_EXC_MATCH" }

\* The last step left the locals as they were.
LocalsKept ==
    /\ step # NoStep
    /\ step.locals_snapshot = called.locals
    /\ simulator.locals = called.locals

\* C26 (branch stack effect): a conditional branch simulated on a non-empty
\* stack pops exactly the tested top value, an unconditional jump leaves
\* the stack unchanged, and neither changes the locals.
C26_BranchStackEffect ==
    /\ (TracerCalled /\ LastOpname \in CONDITIONAL_BRANCHES
          /\ StackBefore # << >>) =>
           /\ LocalsKept
           /\ step.stack_after = Pop(StackBefore)
    /\ (TracerCalled /\ LastOpname \in UNCONDITIONAL_JUMPS) =>
           /\ LocalsKept
           /\ step.stack_after = StackBefore

\* The same statement without the two JUMP_IF_*_OR_POP forms.
PopJumpPops ==
    /\ (TracerCalled /\ LastOpname \in CONDITIONAL_BRANCHES
          /\ LastOpname \notin { "JUMP_IF_TRUE_OR_POP",
                                 "JUMP_IF_FALSE_OR_POP" }
          /\ StackBefore # << >>) =>
           /\ LocalsKept
           /\ step.stack_after = Pop(StackBefore)
    /\ (TracerCalled /\ LastOpname \in UNCONDITIONAL_JUMPS) =>
           /\ LocalsKept
           /\ step.stack_after = StackBefore

\* A simulator has been constructed and has simulated nothing yet.
Constructed == simulator # NoSimulator /\ called = NoCall

\* The keyword arguments the simulator was given; the StackAnimator takes
\* none.
GivenKwargs ==
    IF simulator.kind = "tracer" THEN simulator.kwargs ELSE NoKwargs

\* The binding the statement gives parameter p of func after construction:
\* << v >> for bound to v, << >> for unbound.
InitialBinding(func, p) ==
    LET args == simulator.args
    IN  IF p \in Positional(func, args)
        THEN << args[CHOOSE k \in DOMAIN args : func.params[k] = p] >>
        ELSE IF p \in DOMAIN GivenKwargs THEN << GivenKwargs[p] >>
        ELSE IF p \in DOMAIN func.defaults THEN << func.defaults[p] >>
        ELSE << >>

BindingOf(locals, p) ==
    IF p \in DOMAIN locals THEN << locals[p] >> ELSE << >>

\* C27 (initial locals): after construction each parameter with a supplied
\* positional argument is bound to it, each parameter supplied by keyword to
\* that value, each remaining parameter with a declared default to the
\* default, each parameter with neither is unbound, and the stack is empty.
C27_InitialLocals ==
    Constructed =>
        /\ simulator.stack = << >>
        /\ \A p \in Range(StepFunc.params) :
              BindingOf(simulator.locals, p) = InitialBinding(StepFunc, p)

\* The same statement for the StackSimulator alone.
TracerInitialLocals ==
    (Constructed /\ simulator.kind = "tracer") =>
        /\ simulator.stack = << >>
        /\ \A p \in Range(StepFunc.params) :
              BindingOf(simulator.locals, p) = InitialBinding(StepFunc, p)

\* The locals named by the last instruction, a load or store of locals, in
\* the order of its operand.
NamedLocals ==
    IF called.inst.argval.t = "tuple"
    THEN [ k \in DOMAIN called.inst.argval.items |->
             called.inst.argval.items[k].s ]
    ELSE << called.inst.argval.s >>

\* What a load pushes for a name: its binding before the load, or the
\* placeholder "<name>".
BindingOrPlaceholder(name) ==
    IF name \in DOMAIN called.locals THEN called.locals[name]
    ELSE PyStr("<" \o name \o ">")

\* A load of locals, single or fused, was simulated by the StackSimulator.
LoadCase ==
    TracerCalled /\ LastOpname \in { "LOAD_FAST", "LOAD_FAST_LOAD_FAST" }

\* C28 (unbound load is not an error): a load of locals pushes, in name
\* order, the binding of each named local or "<name>" when it is unbound;
\* it raises nothing, leaves the locals unchanged, and the simulation goes
\* on.
C28_UnboundLoad ==
    LoadCase =>
        /\ ~raised
        /\ LocalsKept
        /\ step.stack_before = StackBefore
        /\ step.stack_after =
              StackBefore \o
              [ k \in DOMAIN NamedLocals |->
                  BindingOrPlaceholder(NamedLocals[k]) ]
        /\ simulator.stack = step.stack_after
        /\ pc = "simulate"

\* A fused load of (x, y) was simulated with x bound and y unbound: the
\* binding of x and then the placeholder of y were pushed.
C28_Witness ==
    /\ LoadCase
    /\ NamedLocals = << "x", "y" >>
    /\ "x" \in DOMAIN called.locals
    /\ "y" \notin DOMAIN called.locals
    /\ ~raised
    /\ Len(step.stack_after) = Len(StackBefore) + 2
    /\ Last(step.stack_after) = PyStr("<y>")

\* A fused store was simulated by the StackSimulator on a stack holding
\* both values.
FusedStoreCase ==
    /\ TracerCalled
    /\ LastOpname = "STORE_FAST_STORE_FAST"
    /\ Len(StackBefore) >= 2

\* The fused store of (a, b) popped two values and bound the top of the
\* stack to b and the value below it to a.
FusedStoreBinds ==
    FusedStoreCase =>
        LET a == NamedLocals[1]
            b == NamedLocals[2]
        IN  /\ ~raised
            /\ step.stack_after = PopN(StackBefore, 2)
            /\ simulator.stack = PopN(StackBefore, 2)
            /\ simulator.locals =
                  locals_set(locals_set(called.locals, b, RightOperand),
                             a, LeftOperand)

\* The step from a fused load of (a, b) to the fused store of the same
\* names that is simulated next.
LoadThenStore ==
    /\ TracerCalled
    /\ LastOpname = "LOAD_FAST_LOAD_FAST"
    /\ ~raised
    /\ called'.inst.opname = "STORE_FAST_STORE_FAST"
    /\ called'.inst.argval = called.inst.argval

\* After the store the stack and the locals are those from before the load.
RoundTrip ==
    /\ simulator'.stack = called.stack
    /\ simulator'.locals = called.locals

\* C29 (fused dual store order): a fused store of (a, b) on a stack of at
\* least two values pops two values and binds the top of the stack to b and
\* the value below to a, so that a fused load of (a, b) followed by a fused
\* store of (a, b) leaves both the stack and the locals as they were.
C29_FusedStoreOrder ==
    /\ []FusedStoreBinds
    /\ [][LoadThenStore => RoundTrip]_vars

\* C29 amended: the round trip leaves the stack and the locals as they were
\* when a and b were both bound before the load.
C29_FusedStoreOrderAmended ==
    /\ []FusedStoreBinds
    /\ [][(LoadThenStore /\ Range(NamedLocals) \subseteq DOMAIN called.locals)
             => RoundTrip]_vars

\* A fused store of (x, y) was simulated, after another instruction, with x
\* and y bound to different values that are also the two values on top of
\* the stack, as a fused load of (x, y) leaves them; the store left the
\* locals as they were.
C29_Witness ==
    /\ FusedStoreCase
    /\ count >= 2
    /\ Range(NamedLocals) \subseteq DOMAIN called.locals
    /\ LeftOperand = called.locals[NamedLocals[1]]
    /\ RightOperand = called.locals[NamedLocals[2]]
    /\ LeftOperand # RightOperand
    /\ simulator.locals = called.locals

\* The trace trace_execution has returned starts on the empty stack, its
\* steps carry the offsets and opcodes of the input instructions in order,
\* and each step starts on the stack the step before it ended on.
TraceContinuous ==
    Traced =>
        /\ steps # << >> => steps[1].stack_before = << >>
        /\ \A k \in DOMAIN steps :
              /\ k \in DOMAIN instructions
              /\ steps[k].offset = instructions[k].offset
              /\ steps[k].opcode = instructions[k].opname
        /\ \A k \in DOMAIN steps :
              k + 1 \in DOMAIN steps =>
                  steps[k + 1].stack_before = steps[k].stack_after

\* While trace_execution runs, a step of the simulation leaves the steps
\* recorded so far as they are.
RecordedStepsKept ==
    pc = "trace" =>
        \A k \in DOMAIN steps :
            /\ k \in DOMAIN steps'
            /\ steps'[k] = steps[k]

\* C30 (trace continuity): in every trace produced by trace_execution the
\* first step's stack_before is empty, step i has the offset and opcode of
\* the i-th input instruction, and each later stack_before equals the
\* earlier stack_after; the stacks and the locals_snapshot recorded in a
\* step are not changed by simulating later instructions.
C30_TraceContinuity ==
    /\ []TraceContinuous
    /\ [][RecordedStepsKept]_vars

\* A returned trace of three steps in which the stack and the locals
\* recorded by the first step differ from those recorded by the last.
C30_Witness ==
    /\ Traced
    /\ Len(steps) = 3
    /\ steps[1].stack_after # << >>
    /\ steps[1].stack_after # steps[3].stack_after
    /\ steps[1].locals_snapshot # steps[3].locals_snapshot

=============================================================================
